---- MODULE Spec2Model ----
(***************************************************************************)
(* Queue-and-session engine of medvision-ai: the appointments router       *)
(* (backend/app/routers/appointments.py), the consultation router          *)
(* (backend/app/routers/consultation.py) and the record-store services     *)
(* they call (firebase_service.py, database_service.py, hybrid_service.py).*)
(*                                                                         *)
(* Every HTTP handler is one atomic action.  The appointments router talks *)
(* to FirebaseService directly; the consultation and settings routers talk *)
(* to HybridDatabaseService, which dispatches to FirebaseService when      *)
(* Firestore is connected and to the SQLite DatabaseService otherwise.     *)
(***************************************************************************)
EXTENDS Integers, Sequences, FiniteSets, TLC

(* ---------------------------------------------------------------------- *)
(* Bounds of the model                                                     *)
(* ---------------------------------------------------------------------- *)
MaxAppts == 2

MaxToken == 3

MaxReports == 1

MaxRx == 1

MaxChain == 6

MaxStrLen == 2

KeyLen == 2

MaxNameLen == 3

(* ---------------------------------------------------------------------- *)
(* Value domains                                                           *)
(* ---------------------------------------------------------------------- *)
None == "None"

Today == "today"

Dates == {"today", "tomorrow"}

RegisteredDoctors == {"doc1"}

DoctorIds == {"doc1", "ghost"}

Modes == {"online", "offline"}

MeetLink == "https://meet.google.com/abc-defg-hij"

PatientId == "current_patient_id"

AppointmentStatus ==
  {"pending", "confirmed", "in_progress", "completed", "cancelled",
   "no_show", "rescheduled"}

ConsultationStatus ==
  {"waiting", "patient_arrived", "in_progress", "paused", "completed"}

Backends == {"firebase", "sqlite"}

\* the worker processes that serve requests against the shared stores
Workers == {1, 2}

\* what a worker holds between the store calls of the request it serves
Idle ==
  [pc |-> "idle", op |-> "none", id |-> 0, doctor_id |-> "none",
   queue_date |-> "none", mode |-> "none", meet_link |-> "none", seen |-> {},
   queue_number |-> 0, consultation_id |-> 0, code |-> "none"]

VARIABLES
  backend,        \* which store HybridDatabaseService selected at start-up
  faults,         \* whether store writes may raise in this run
  appointments,   \* appointment records, index = appointment id
  consultations,  \* rows of the consultations table, index = consultation id
  messages,       \* rows of the messages table
  reputations,    \* patient id -> reputation record
  settings,       \* doctor id -> custom_meet_link of the settings record
  prescriptions,  \* rows of the prescriptions table
  unavailability, \* stored DoctorUnavailability records
  doctor_notes,   \* rows of the doctor_notes table
  uploads,        \* consultation ids with a file under uploads/
  in_flight,      \* requests whose store calls interleave, by worker
  audit_down,     \* whether the audit-log write raised during the last request
  calc,           \* the last call of a service function and what it returned
  last            \* the last request and the response it got

vars ==
  <<backend, faults, appointments, consultations, messages, reputations,
    settings, prescriptions, unavailability,
    doctor_notes, uploads, in_flight, audit_down, calc, last>>

store == <<appointments, consultations, messages, reputations, settings>>

AIds == 1..MaxAppts

(* ---------------------------------------------------------------------- *)
(* Responses                                                               *)
(* ---------------------------------------------------------------------- *)
Response(op, id, code, val, aux) ==
  [op |-> op, id |-> id, code |-> code, val |-> val, aux |-> aux]

FaultChoices == IF faults THEN BOOLEAN ELSE {FALSE}

(* ---------------------------------------------------------------------- *)
(* FirebaseService (direct use by the appointments router)                 *)
(* ---------------------------------------------------------------------- *)
is_connected == backend = "firebase"

FB_get_doctor_by_id(doctor_id) ==
  is_connected /\ doctor_id \in RegisteredDoctors

FB_get_appointment_by_id(appointment_id) ==
  is_connected /\ appointment_id \in DOMAIN appointments

FB_get_appointments_by_doctor_date(doctor_id, date) ==
  IF ~is_connected THEN {}
  ELSE {i \in DOMAIN appointments :
          /\ appointments[i].doctor_id = doctor_id
          /\ appointments[i].queue_date = date}

FB_update_appointment(appointment_id, updates) ==
  IF ~is_connected \/ appointment_id \notin DOMAIN appointments
  THEN appointments
  ELSE [appointments EXCEPT ![appointment_id] =
          [f \in DOMAIN @ |-> IF f \in DOMAIN updates THEN updates[f] ELSE @[f]]]

Min(a, b) == IF a < b THEN a ELSE b

Max(a, b) == IF a > b THEN a ELSE b

FB_update_patient_reputation(patient_id, action) ==
  IF ~is_connected THEN reputations
  ELSE IF patient_id \in DOMAIN reputations
  THEN LET data == reputations[patient_id] IN
       [reputations EXCEPT ![patient_id] =
          [no_show_count |->
             IF action = "no_show" THEN data.no_show_count + 1
             ELSE data.no_show_count,
           completed_appointments |->
             IF action = "completed" THEN data.completed_appointments + 1
             ELSE data.completed_appointments,
           reputation_score |->
             IF action = "no_show" THEN Max(0, data.reputation_score - 10)
             ELSE IF action = "completed" THEN Min(100, data.reputation_score + 2)
             ELSE data.reputation_score,
           total_appointments |-> data.total_appointments + 1]]
  ELSE [p \in DOMAIN reputations \cup {patient_id} |->
          IF p = patient_id
          THEN [no_show_count |-> IF action = "no_show" THEN 1 ELSE 0,
                completed_appointments |-> IF action = "completed" THEN 1 ELSE 0,
                reputation_score |-> IF action = "no_show" THEN 40 ELSE 52,
                total_appointments |-> 1]
          ELSE reputations[p]]

\* x or 50: a stored score of 0 is falsy and is read as 50
or_50(x) == IF x = 0 THEN 50 ELSE x

SQL_update_patient_reputation(patient_id, action) ==
  IF patient_id \in DOMAIN reputations
  THEN LET reputation == reputations[patient_id] IN
       [reputations EXCEPT ![patient_id] =
          [no_show_count |->
             IF action = "no_show" THEN reputation.no_show_count + 1
             ELSE reputation.no_show_count,
           completed_appointments |->
             IF action = "no_show" THEN reputation.completed_appointments
             ELSE IF action = "completed"
             THEN reputation.completed_appointments + 1
             ELSE reputation.completed_appointments,
           reputation_score |->
             IF action = "no_show"
             THEN Max(0, or_50(reputation.reputation_score) - 10)
             ELSE IF action = "completed"
             THEN Min(100, or_50(reputation.reputation_score) + 2)
             ELSE reputation.reputation_score,
           total_appointments |-> reputation.total_appointments + 1]]
  ELSE [p \in DOMAIN reputations \cup {patient_id} |->
          IF p = patient_id
          THEN [no_show_count |-> IF action = "no_show" THEN 1 ELSE 0,
                completed_appointments |-> IF action = "completed" THEN 1 ELSE 0,
                reputation_score |-> IF action = "no_show" THEN 40 ELSE 52,
                total_appointments |-> 1]
          ELSE reputations[p]]

TotalReports ==
  IF PatientId \in DOMAIN reputations
  THEN reputations[PatientId].total_appointments ELSE 0

SetMax(S) == CHOOSE m \in S : \A x \in S : x <= m

(* ---------------------------------------------------------------------- *)
(* Appointments router                                                     *)
(* ---------------------------------------------------------------------- *)
\* mutation of new_queue_number: the token computed as create_appointment
\* computes it, from the number of appointments instead of the largest token
new_queue_number_by_count(appointments_today) ==
  Cardinality(appointments_today) + 1

\* max([a.get("queue_number", 0) for a in appointments_today]) + 1
new_queue_number(appointments_today) ==
  SetMax({appointments[i].queue_number : i \in appointments_today}) + 1

create_appointment(doctor_id, queue_date, mode) ==
  /\ Len(appointments) < MaxAppts
  /\ IF ~FB_get_doctor_by_id(doctor_id)
     THEN /\ last' = Response("create_appointment", 0, "not_found", 0, 0)
          /\ UNCHANGED store
     ELSE LET existing_appointments ==
                FB_get_appointments_by_doctor_date(doctor_id, queue_date)
              queue_number == Cardinality(existing_appointments) + 1
              appointment_id == Len(appointments) + 1
          IN \E fail \in FaultChoices :
               IF fail
               THEN /\ last' = Response("create_appointment", 0, "internal", 0, 0)
                    /\ UNCHANGED store
               ELSE /\ queue_number <= MaxToken
                    /\ appointments' = Append(appointments,
                         [patient_id |-> PatientId,
                          doctor_id |-> doctor_id,
                          status |-> "pending",
                          mode |-> mode,
                          queue_number |-> queue_number,
                          queue_date |-> queue_date,
                          meet_link |-> None])
                    /\ last' = Response("create_appointment", appointment_id,
                                        "ok", queue_number, 0)
                    /\ UNCHANGED <<consultations, messages, reputations, settings>>
  /\ audit_down' = FALSE
  /\ UNCHANGED <<backend, faults, prescriptions, unavailability,
                 doctor_notes, uploads, in_flight, calc>>

cancel_appointment(appointment_id) ==
  /\ IF ~FB_get_appointment_by_id(appointment_id)
     THEN /\ last' = Response("cancel_appointment", appointment_id, "not_found", 0, 0)
          /\ UNCHANGED store
     ELSE IF appointments[appointment_id].status \in {"completed", "cancelled"}
     THEN /\ last' = Response("cancel_appointment", appointment_id, "bad_request", 0, 0)
          /\ UNCHANGED store
     ELSE \E fail \in FaultChoices :
            IF fail
            THEN /\ last' = Response("cancel_appointment", appointment_id, "internal", 0, 0)
                 /\ UNCHANGED store
            ELSE /\ appointments' = FB_update_appointment(appointment_id,
                                       [status |-> "cancelled"])
                 /\ last' = Response("cancel_appointment", appointment_id, "ok", 0, 0)
                 /\ UNCHANGED <<consultations, messages, reputations, settings>>
  /\ audit_down' = FALSE
  /\ UNCHANGED <<backend, faults, prescriptions, unavailability,
                 doctor_notes, uploads, in_flight, calc>>

submit_patient_profile(appointment_id) ==
  /\ IF ~FB_get_appointment_by_id(appointment_id)
     THEN /\ last' = Response("submit_patient_profile", appointment_id, "not_found", 0, 0)
          /\ UNCHANGED store
     ELSE \E fail1 \in FaultChoices, fail2 \in FaultChoices :
            IF fail1
            THEN /\ last' = Response("submit_patient_profile", appointment_id, "internal", 0, 0)
                 /\ UNCHANGED store
            ELSE /\ IF fail2
                    THEN /\ last' = Response("submit_patient_profile", appointment_id,
                                             "internal", 0, 0)
                         /\ UNCHANGED appointments
                    ELSE /\ appointments' = FB_update_appointment(appointment_id,
                                               [status |-> "confirmed"])
                         /\ last' = Response("submit_patient_profile", appointment_id,
                                             "ok", 0, 0)
                 /\ UNCHANGED <<consultations, messages, reputations, settings>>
  /\ audit_down' = FALSE
  /\ UNCHANGED <<backend, faults, prescriptions, unavailability,
                 doctor_notes, uploads, in_flight, calc>>

update_appointment_status(appointment_id, status) ==
  /\ IF ~FB_get_appointment_by_id(appointment_id)
     THEN /\ last' = Response("update_appointment_status", appointment_id, "not_found", 0, 0)
          /\ UNCHANGED store
     ELSE \E fail1 \in FaultChoices, fail2 \in FaultChoices :
            /\ IF status = "no_show"
               THEN IF fail1
                    THEN UNCHANGED reputations
                    ELSE /\ TotalReports < MaxReports
                         /\ reputations' = FB_update_patient_reputation(
                                             appointments[appointment_id].patient_id,
                                             "no_show")
               ELSE /\ ~fail1
                    /\ UNCHANGED reputations
            /\ IF fail1 \/ fail2
               THEN /\ last' = Response("update_appointment_status", appointment_id,
                                        "internal", 0, 0)
                    /\ UNCHANGED appointments
               ELSE /\ appointments' = FB_update_appointment(appointment_id,
                                          [status |-> status])
                    /\ last' = Response("update_appointment_status", appointment_id,
                                        "ok", 0, 0)
            /\ UNCHANGED <<consultations, messages, settings>>
  /\ audit_down' = FALSE
  /\ UNCHANGED <<backend, faults, prescriptions, unavailability,
                 doctor_notes, uploads, in_flight, calc>>

reassign_patient(appointment_id) ==
  /\ IF ~FB_get_appointment_by_id(appointment_id)
     THEN /\ last' = Response("reassign_patient", appointment_id, "not_found", 0, 0)
          /\ UNCHANGED store
     ELSE LET appointment == appointments[appointment_id]
              appointments_today ==
                FB_get_appointments_by_doctor_date(appointment.doctor_id,
                                                   appointment.queue_date)
              queue_number == new_queue_number(appointments_today)
          IN \E fail \in FaultChoices :
               IF fail
               THEN /\ last' = Response("reassign_patient", appointment_id, "internal", 0, 0)
                    /\ UNCHANGED store
               ELSE /\ queue_number <= MaxToken
                    /\ appointments' = FB_update_appointment(appointment_id,
                                          [queue_number |-> queue_number])
                    /\ last' = Response("reassign_patient", appointment_id, "ok",
                                        queue_number, 0)
                    /\ UNCHANGED <<consultations, messages, reputations, settings>>
  /\ audit_down' = FALSE
  /\ UNCHANGED <<backend, faults, prescriptions, unavailability,
                 doctor_notes, uploads, in_flight, calc>>

(* ---------------------------------------------------------------------- *)
(* DatabaseService (SQLite)                                                *)
(* ---------------------------------------------------------------------- *)
SQL_get_appointment_by_id(appointment_id) ==
  appointment_id \in DOMAIN appointments

SQL_get_appointments_by_doctor_date(doctor_id, date) ==
  {i \in DOMAIN appointments :
     /\ appointments[i].doctor_id = doctor_id
     /\ appointments[i].queue_date = date}

SQL_update_appointment(appointment_id, updates) ==
  IF appointment_id \notin DOMAIN appointments
  THEN appointments
  ELSE [appointments EXCEPT ![appointment_id] =
          [f \in DOMAIN @ |-> IF f \in DOMAIN updates THEN updates[f] ELSE @[f]]]

\* .filter(Consultation.appointment_id == appointment_id).first(): 0 when no row
SQL_get_consultation_by_appointment(appointment_id) ==
  LET rows == {i \in DOMAIN consultations :
                 consultations[i].appointment_id = appointment_id}
  IN IF rows = {} THEN 0 ELSE CHOOSE i \in rows : \A j \in rows : i <= j

SQL_get_consultation_by_id(consultation_id) ==
  consultation_id \in DOMAIN consultations

\* Consultation(...) keeps id, appointment_id, doctor_id, patient_id, status,
\* is_online, meet_link, current_token, created_at of the data it is given;
\* the columns consultation_started_at and ended_at are left NULL
SQL_create_consultation(data) ==
  Append(consultations,
         [appointment_id |-> data.appointment_id,
          doctor_id |-> data.doctor_id,
          status |-> data.status,
          is_online |-> data.is_online,
          meet_link |-> data.meet_link,
          current_token |-> data.current_token,
          consultation_started_at |-> None,
          ended_at |-> None])

\* session.commit() raises when created_at is a string: the column is DateTime
SQL_create_consultation_raises(data) == data.created_at = "isoformat_string"

\* setattr only for the keys the Consultation model has as columns
ConsultationColumns ==
  {"appointment_id", "doctor_id", "status", "is_online", "meet_link",
   "current_token", "consultation_started_at", "ended_at"}

\* session.commit() raises when a DateTime column was set to a string; of
\* the DateTime columns, updated_at is overwritten with datetime.utcnow()
\* before the commit
SQL_update_consultation_raises(updates) ==
  \E f \in DOMAIN updates \cap {"consultation_started_at", "ended_at"} :
    updates[f] = "isoformat_string"

SQL_update_consultation(consultation_id, updates) ==
  IF consultation_id \notin DOMAIN consultations
  THEN consultations
  ELSE [consultations EXCEPT ![consultation_id] =
          [f \in DOMAIN @ |->
             IF f \in DOMAIN updates /\ f \in ConsultationColumns
             THEN updates[f] ELSE @[f]]]

\* Message(encrypted_content=..., iv=...) is rejected by the Message model,
\* which has no such columns: the constructor raises before any row is added
SQL_create_message_raises == TRUE

(* ---------------------------------------------------------------------- *)
(* HybridDatabaseService                                                   *)
(* ---------------------------------------------------------------------- *)
FirebaseMethods ==
  {"get_appointment_by_id", "get_appointments_by_doctor_date", "update_appointment",
   "get_doctor_settings", "update_doctor_settings", "update_patient_reputation",
   "get_doctor_by_id", "create_appointment"}

SqliteMethods ==
  FirebaseMethods \cup
  {"create_consultation", "get_consultation_by_id", "get_consultation_by_appointment",
   "update_consultation", "create_message", "get_messages_by_consultation",
   "create_prescription", "get_prescription_by_id",
   "get_prescriptions_by_consultation",
   "create_doctor_notes", "get_doctor_notes_by_consultation",
   "update_doctor_notes"}

\* which service ends up executing method_name: Firestore when it is in use
\* and has the method, SQLite when it is the initialised fallback and has the
\* method, nobody ("none": the call returns None and does nothing) otherwise
execute_with_fallback(method_name) ==
  IF backend = "firebase"
  THEN IF method_name \in FirebaseMethods THEN "firebase" ELSE "none"
  ELSE IF method_name \in SqliteMethods THEN "sqlite" ELSE "none"

db_get_appointment_by_id(appointment_id) ==
  CASE execute_with_fallback("get_appointment_by_id") = "firebase" ->
         FB_get_appointment_by_id(appointment_id)
    [] execute_with_fallback("get_appointment_by_id") = "sqlite" ->
         SQL_get_appointment_by_id(appointment_id)
    [] OTHER -> FALSE

db_get_appointments_by_doctor_date(doctor_id, date) ==
  CASE execute_with_fallback("get_appointments_by_doctor_date") = "firebase" ->
         FB_get_appointments_by_doctor_date(doctor_id, date)
    [] execute_with_fallback("get_appointments_by_doctor_date") = "sqlite" ->
         SQL_get_appointments_by_doctor_date(doctor_id, date)
    [] OTHER -> {}

db_update_appointment(appointment_id, updates) ==
  CASE execute_with_fallback("update_appointment") = "firebase" ->
         FB_update_appointment(appointment_id, updates)
    [] execute_with_fallback("update_appointment") = "sqlite" ->
         SQL_update_appointment(appointment_id, updates)
    [] OTHER -> appointments

db_get_consultation_by_appointment(appointment_id) ==
  IF execute_with_fallback("get_consultation_by_appointment") = "sqlite"
  THEN SQL_get_consultation_by_appointment(appointment_id)
  ELSE 0

db_get_consultation_by_id(consultation_id) ==
  /\ execute_with_fallback("get_consultation_by_id") = "sqlite"
  /\ SQL_get_consultation_by_id(consultation_id)

db_create_consultation(data) ==
  IF execute_with_fallback("create_consultation") = "sqlite"
  THEN SQL_create_consultation(data)
  ELSE consultations

\* mutation of db_update_consultation: the update is lost
db_update_consultation_lost(consultation_id, updates) == consultations

db_update_consultation(consultation_id, updates) ==
  IF execute_with_fallback("update_consultation") = "sqlite"
  THEN SQL_update_consultation(consultation_id, updates)
  ELSE consultations

\* custom_meet_link of the doctor's settings, None when there is no settings
\* record or the record carries no link
db_get_custom_meet_link(doctor_id) ==
  IF settings[doctor_id] = "no_settings" THEN None ELSE settings[doctor_id]

\* an exception of the executing service reaches the router only from SQLite:
\* _execute_with_fallback catches what Firestore raises and returns None
Propagates(method_name) == execute_with_fallback(method_name) = "sqlite"

\* _log_action: HybridDatabaseService.create_audit_log finds the method on
\* neither service and returns None; whatever is raised is swallowed
log_action_writes == execute_with_fallback("create_audit_log") # "none"

\* what the response record of start_consultation and finish_consultation
\* carries in aux: the number of _log_action calls the request made.  The
\* handlers call it once, as their last statement before the return; every
\* branch that returns or raises earlier leaves aux at 0
log_action_calls == 1

\* mutation of log_action_raises: _log_action without its try/except
log_action_propagates(audit_fail) == audit_fail

\* whether _log_action raises to the handler when the audit-log write raises:
\* never, its body is wrapped in try/except Exception
log_action_raises(audit_fail) == FALSE

(* ---------------------------------------------------------------------- *)
(* Consultation router                                                     *)
(* ---------------------------------------------------------------------- *)
CIds == 1..MaxAppts

SlotMinutes == 15

\* mutation of meet_link_missing: the enforcement left out
meet_link_not_enforced(is_online, meet_link) == FALSE

\* if consultation.is_online and not consultation.meet_link
meet_link_missing(is_online, meet_link) == is_online /\ meet_link = None

start_existing(appointment_id, existing) ==
  LET row == consultations[existing]
      new_link == db_get_custom_meet_link(row.doctor_id)
      repair == row.is_online /\ row.meet_link = None /\ new_link # None
  IN \E fail \in FaultChoices :
       LET repaired == repair /\ ~fail
           link == IF repaired THEN new_link ELSE row.meet_link
       IN /\ consultations' =
               IF repaired
               THEN db_update_consultation(existing, [meet_link |-> new_link])
               ELSE consultations
          /\ last' = IF meet_link_missing(row.is_online, link)
                     THEN Response("start_consultation", appointment_id,
                                   "MEET_LINK_MISSING", 0, 0)
                     ELSE Response("start_consultation", appointment_id,
                                   "ok", existing, 0)
          /\ UNCHANGED <<appointments, messages, reputations, settings>>

start_new(appointment_id, audit_fail) ==
  LET appointment == appointments[appointment_id]
      is_online == appointment.mode = "online"
      meet_link == IF is_online /\ appointment.meet_link = None
                   THEN db_get_custom_meet_link(appointment.doctor_id)
                   ELSE appointment.meet_link
      consultation == [appointment_id |-> appointment_id,
                       doctor_id |-> appointment.doctor_id,
                       status |-> "in_progress",
                       is_online |-> is_online,
                       meet_link |-> meet_link,
                       current_token |-> appointment.queue_number,
                       created_at |-> "datetime"]
      consultation_id ==
        IF execute_with_fallback("create_consultation") = "sqlite"
        THEN Len(consultations) + 1 ELSE 0
  IN IF meet_link_missing(is_online, meet_link)
     THEN /\ last' = Response("start_consultation", appointment_id,
                              "MEET_LINK_MISSING", 0, 0)
          /\ UNCHANGED store
     ELSE \E fail1 \in FaultChoices, fail2 \in FaultChoices :
            IF fail1 /\ Propagates("create_consultation")
            THEN /\ last' = Response("start_consultation", appointment_id,
                                     "internal", 0, 0)
                 /\ UNCHANGED store
            ELSE /\ consultations' = IF fail1 THEN consultations
                                     ELSE db_create_consultation(consultation)
                 /\ IF fail2 /\ Propagates("update_appointment")
                    THEN /\ last' = Response("start_consultation", appointment_id,
                                             "internal", 0, 0)
                         /\ UNCHANGED appointments
                    ELSE /\ appointments' =
                              IF fail2 THEN appointments
                              ELSE db_update_appointment(appointment_id,
                                                         [status |-> "in_progress"])
                         /\ last' = IF log_action_raises(audit_fail)
                                    THEN Response("start_consultation",
                                                  appointment_id, "internal", 0,
                                                  log_action_calls)
                                    ELSE Response("start_consultation",
                                                  appointment_id, "ok",
                                                  consultation_id,
                                                  log_action_calls)
                 /\ UNCHANGED <<messages, reputations, settings>>

\* the handler, given whether the audit-log write of this request raises
start_consultation_with(appointment_id, audit_fail) ==
  IF ~db_get_appointment_by_id(appointment_id)
  THEN /\ last' = Response("start_consultation", appointment_id, "not_found", 0, 0)
       /\ UNCHANGED store
  ELSE LET existing == db_get_consultation_by_appointment(appointment_id)
       IN IF existing # 0
          THEN start_existing(appointment_id, existing)
          ELSE start_new(appointment_id, audit_fail)

start_consultation(appointment_id) ==
  /\ \E audit_fail \in BOOLEAN :
       /\ start_consultation_with(appointment_id, audit_fail)
       /\ audit_down' = audit_fail
  /\ UNCHANGED <<backend, faults, prescriptions, unavailability,
                 doctor_notes, uploads, in_flight, calc>>

(* ---------------------------------------------------------------------- *)
(* Doctor notes (doctor_notes table of the SQLite service)                 *)
(* ---------------------------------------------------------------------- *)
\* .filter(DoctorNote.consultation_id == consultation_id).first(): 0 when no row
SQL_get_doctor_notes_by_consultation(consultation_id) ==
  LET rows == {i \in DOMAIN doctor_notes :
                 doctor_notes[i].consultation_id = consultation_id}
  IN IF rows = {} THEN 0 ELSE CHOOSE i \in rows : \A j \in rows : i <= j

\* DoctorNote(...) keeps the diagnosis columns of the data it is given; the
\* DoctorNotes model the router dumps has no final_diagnosis field
SQL_create_doctor_notes(data) ==
  Append(doctor_notes,
         [consultation_id |-> data.consultation_id,
          provisional_diagnosis |-> data.provisional_diagnosis,
          final_diagnosis |-> None])

\* setattr only for the keys the DoctorNote model has as columns
SQL_update_doctor_notes(notes_id, updates) ==
  IF notes_id \notin DOMAIN doctor_notes
  THEN doctor_notes
  ELSE [doctor_notes EXCEPT ![notes_id] =
          [f \in DOMAIN @ |-> IF f \in DOMAIN updates THEN updates[f] ELSE @[f]]]

db_get_doctor_notes_by_consultation(consultation_id) ==
  IF execute_with_fallback("get_doctor_notes_by_consultation") = "sqlite"
  THEN SQL_get_doctor_notes_by_consultation(consultation_id)
  ELSE 0

db_create_doctor_notes(data) ==
  IF execute_with_fallback("create_doctor_notes") = "sqlite"
  THEN SQL_create_doctor_notes(data)
  ELSE doctor_notes

db_update_doctor_notes(notes_id, updates) ==
  IF execute_with_fallback("update_doctor_notes") = "sqlite"
  THEN SQL_update_doctor_notes(notes_id, updates)
  ELSE doctor_notes

\* request.final_diagnosis of FinishConsultationRequest: absent or a text
FinalDiagnoses == {None, "final_dx"}

\* the handler, given the final diagnosis of the request and whether the
\* audit-log write of this request raises
finish_consultation_as(consultation_id, final_diagnosis, audit_fail) ==
  IF ~db_get_consultation_by_id(consultation_id)
  THEN /\ last' = Response("finish_consultation", consultation_id, "not_found", 0, 0)
       /\ UNCHANGED <<store, doctor_notes>>
  ELSE LET appointment_id == consultations[consultation_id].appointment_id
           \* if request.final_diagnosis: notes = db.get_doctor_notes_by_...
           notes == IF final_diagnosis # None
                    THEN db_get_doctor_notes_by_consultation(consultation_id)
                    ELSE 0
       IN \E fail1 \in FaultChoices, fail2 \in FaultChoices,
             failn \in (IF notes # 0 THEN FaultChoices ELSE {FALSE}) :
            IF fail1 /\ Propagates("update_consultation")
            THEN /\ last' = Response("finish_consultation", consultation_id,
                                     "internal", 0, 0)
                 /\ UNCHANGED <<store, doctor_notes>>
            ELSE /\ consultations' =
                      IF fail1 THEN consultations
                      ELSE db_update_consultation(consultation_id,
                                                  [status |-> "completed",
                                                   ended_at |-> "datetime"])
                 /\ IF failn /\ Propagates("update_doctor_notes")
                    THEN /\ last' = Response("finish_consultation", consultation_id,
                                             "internal", 0, 0)
                         /\ UNCHANGED <<appointments, doctor_notes>>
                    ELSE /\ doctor_notes' =
                              \* if notes: db.update_doctor_notes(...)
                              IF notes # 0 /\ ~failn
                              THEN db_update_doctor_notes(
                                     notes,
                                     [provisional_diagnosis |-> final_diagnosis])
                              ELSE doctor_notes
                         /\ IF fail2 /\ Propagates("update_appointment")
                            THEN /\ last' = Response("finish_consultation",
                                                     consultation_id,
                                                     "internal", 0, 0)
                                 /\ UNCHANGED appointments
                            ELSE /\ appointments' =
                                      IF fail2 THEN appointments
                                      ELSE db_update_appointment(
                                             appointment_id,
                                             [status |-> "completed"])
                                 /\ last' =
                                      IF log_action_raises(audit_fail)
                                      THEN Response("finish_consultation",
                                                    consultation_id, "internal",
                                                    0, log_action_calls)
                                      ELSE Response("finish_consultation",
                                                    consultation_id, "ok",
                                                    0, log_action_calls)
                 /\ UNCHANGED <<messages, reputations, settings>>

\* the handler, given whether the audit-log write of this request raises
finish_consultation_with(consultation_id, audit_fail) ==
  \E final_diagnosis \in FinalDiagnoses :
    finish_consultation_as(consultation_id, final_diagnosis, audit_fail)

finish_consultation(consultation_id) ==
  /\ \E audit_fail \in BOOLEAN :
       /\ finish_consultation_with(consultation_id, audit_fail)
       /\ audit_down' = audit_fail
  /\ UNCHANGED <<backend, faults, prescriptions, unavailability,
                 uploads, in_flight, calc>>

\* db.create_message as the two send handlers reach it: "raise" (the router
\* answers 500), "stored" or "dropped" (the call returned None, nothing stored)
db_create_message ==
  IF execute_with_fallback("create_message") = "sqlite"
  THEN IF SQL_create_message_raises THEN "raise" ELSE "stored"
  ELSE "dropped"

send_message(consultation_id) ==
  /\ IF ~db_get_consultation_by_id(consultation_id)
     THEN /\ last' = Response("send_message", consultation_id, "not_found", 0, 0)
          /\ UNCHANGED store
     ELSE /\ messages' =
               IF db_create_message = "stored"
               THEN Append(messages, [consultation_id |-> consultation_id,
                                      encrypted_content |-> "ciphertext",
                                      iv |-> "iv"])
               ELSE messages
          /\ last' = IF db_create_message = "raise"
                     THEN Response("send_message", consultation_id, "internal", 0, 0)
                     ELSE Response("send_message", consultation_id, "ok",
                                   consultation_id, 0)
          /\ UNCHANGED <<appointments, consultations, reputations, settings>>
  /\ audit_down' = FALSE
  /\ UNCHANGED <<backend, faults, prescriptions, unavailability,
                 doctor_notes, uploads, in_flight, calc>>

send_message_by_appointment(appointment_id) ==
  LET existing == db_get_consultation_by_appointment(appointment_id)
      consultation == [appointment_id |-> appointment_id,
                       doctor_id |-> appointments[appointment_id].doctor_id,
                       status |-> "waiting",
                       is_online |-> FALSE,
                       meet_link |-> None,
                       current_token |-> 0,
                       created_at |-> "isoformat_string"]
      creates == existing = 0
      create_raises ==
        /\ creates
        /\ Propagates("create_consultation")
        /\ SQL_create_consultation_raises(consultation)
      consultation_id ==
        IF existing # 0 THEN existing
        ELSE IF execute_with_fallback("create_consultation") = "sqlite"
        THEN Len(consultations) + 1 ELSE 0
  IN
  /\ IF creates /\ ~db_get_appointment_by_id(appointment_id)
     THEN /\ last' = Response("send_message_by_appointment", appointment_id,
                              "not_found", 0, 0)
          /\ UNCHANGED store
     ELSE IF create_raises
     THEN /\ last' = Response("send_message_by_appointment", appointment_id,
                              "internal", 0, 0)
          /\ UNCHANGED store
     ELSE /\ consultations' = IF creates THEN db_create_consultation(consultation)
                              ELSE consultations
          /\ messages' =
               IF db_create_message = "stored"
               THEN Append(messages, [consultation_id |-> consultation_id,
                                      encrypted_content |-> "ciphertext",
                                      iv |-> "iv"])
               ELSE messages
          /\ last' = IF db_create_message = "raise"
                     THEN Response("send_message_by_appointment", appointment_id,
                                   "internal", 0, 0)
                     ELSE Response("send_message_by_appointment", appointment_id,
                                   "ok", consultation_id, 0)
          /\ UNCHANGED <<appointments, reputations, settings>>
  /\ audit_down' = FALSE
  /\ UNCHANGED <<backend, faults, prescriptions, unavailability,
                 doctor_notes, uploads, in_flight, calc>>

(* ---------------------------------------------------------------------- *)
(* Prescriptions                                                           *)
(* ---------------------------------------------------------------------- *)
\* json.dumps({'medications': ..., 'tests': ...}, sort_keys=True)
content_hash(medications, tests) == <<"json", medications, tests>>

\* HMAC-SHA256 over f"{doctor_id}:{timestamp.isoformat()}:{content}" under
\* the master key: equal inputs give equal signatures, different inputs
\* different ones
generate_signature(content, doctor_id, timestamp) ==
  <<"hmac", doctor_id, timestamp, content>>

verify_signature(content, doctor_id, timestamp, signature) ==
  signature = generate_signature(content, doctor_id, timestamp)

\* Prescription(...) keeps consultation_id, doctor_id and medications of the
\* data it is given; created_at is the column default of the insert; the
\* advised tests and doctor_signature_hash are not columns and are dropped
SQL_create_prescription(data) ==
  Append(prescriptions,
         [consultation_id |-> data.consultation_id,
          doctor_id |-> data.doctor_id,
          medications |-> data.medications,
          created_at |-> "insert_time"])

SQL_get_prescriptions_by_consultation(consultation_id) ==
  SelectSeq(prescriptions, LAMBDA r : r.consultation_id = consultation_id)

db_create_prescription(data) ==
  IF execute_with_fallback("create_prescription") = "sqlite"
  THEN SQL_create_prescription(data)
  ELSE prescriptions

db_get_prescriptions_by_consultation(consultation_id) ==
  IF execute_with_fallback("get_prescriptions_by_consultation") = "sqlite"
  THEN SQL_get_prescriptions_by_consultation(consultation_id)
  ELSE <<>>

\* get_prescriptions_by_patient exists on neither service: always []
db_get_prescriptions_by_patient(patient_id) ==
  IF execute_with_fallback("get_prescriptions_by_patient") = "none"
  THEN <<>>
  ELSE SelectSeq(prescriptions, LAMBDA r : TRUE)

create_prescription(consultation_id, medications, advised_tests) ==
  /\ Len(prescriptions) < MaxRx
  /\ IF ~db_get_consultation_by_id(consultation_id)
     THEN /\ last' = Response("create_prescription", consultation_id, "not_found", 0, 0)
          /\ UNCHANGED prescriptions
     ELSE LET consultation == consultations[consultation_id]
              now == "request_time"
              signature == generate_signature(
                             content_hash(medications, advised_tests),
                             consultation.doctor_id, now)
              rx == [consultation_id |-> consultation_id,
                     doctor_id |-> consultation.doctor_id,
                     medications |-> medications,
                     advised_tests |-> advised_tests,
                     doctor_signature_hash |-> signature,
                     created_at |-> now]
          IN \E fail \in FaultChoices :
               IF fail /\ Propagates("create_prescription")
               THEN /\ last' = Response("create_prescription", consultation_id,
                                        "internal", 0, 0)
                    /\ UNCHANGED prescriptions
               ELSE /\ prescriptions' = IF fail THEN prescriptions
                                        ELSE db_create_prescription(rx)
                    /\ last' = Response("create_prescription", consultation_id,
                                        "ok", rx, 0)
  /\ audit_down' = FALSE
  /\ UNCHANGED <<backend, faults, store, unavailability,
                 doctor_notes, uploads, in_flight, calc>>

\* val is the prescription returned (0 when none), aux the 'status' field
get_prescription_by_appointment(appointment_id) ==
  /\ LET consultation_id == db_get_consultation_by_appointment(appointment_id)
         rows == db_get_prescriptions_by_consultation(consultation_id)
     IN last' = IF consultation_id = 0
                THEN Response("get_prescription_by_appointment", appointment_id,
                              "ok", 0, "no_consultation")
                ELSE IF Len(rows) = 0
                THEN Response("get_prescription_by_appointment", appointment_id,
                              "ok", 0, "no_prescription")
                ELSE Response("get_prescription_by_appointment", appointment_id,
                              "ok", rows[1], "found")
  /\ audit_down' = FALSE
  /\ UNCHANGED <<backend, faults, store, prescriptions, unavailability,
                 doctor_notes, uploads, in_flight, calc>>

\* val is the list of prescriptions returned
get_patient_prescriptions(patient_id) ==
  /\ last' = Response("get_patient_prescriptions", patient_id, "ok",
                      db_get_prescriptions_by_patient(patient_id), 0)
  /\ audit_down' = FALSE
  /\ UNCHANGED <<backend, faults, store, prescriptions, unavailability,
                 doctor_notes, uploads, in_flight, calc>>

(* ---------------------------------------------------------------------- *)
(* Doctor unavailability                                                   *)
(* ---------------------------------------------------------------------- *)
\* create_unavailability exists on neither service: the call returns None
db_create_unavailability(data) ==
  IF execute_with_fallback("create_unavailability") = "none"
  THEN unavailability
  ELSE Append(unavailability, data)

\* ids of the doctor's appointments of today that are pending or confirmed
affected_appointment_ids(doctor_id) ==
  {i \in db_get_appointments_by_doctor_date(doctor_id, Today) :
     appointments[i].status \in {"pending", "confirmed"}}

set_doctor_unavailable(doctor_id) ==
  /\ unavailability' = db_create_unavailability(
                         [doctor_id |-> doctor_id,
                          affected_appointment_ids |->
                            affected_appointment_ids(doctor_id)])
  /\ last' = Response("set_doctor_unavailable", doctor_id, "ok", 0, 0)
  /\ audit_down' = FALSE
  /\ UNCHANGED <<backend, faults, store, prescriptions,
                 doctor_notes, uploads, in_flight, calc>>

\* ahead: today's appointments of the doctor with a smaller token that are
\* still pending or confirmed
ahead_count(appointment_id) ==
  LET appointment == appointments[appointment_id]
      todays == db_get_appointments_by_doctor_date(appointment.doctor_id, Today)
  IN Cardinality({i \in todays :
                    /\ appointments[i].queue_number < appointment.queue_number
                    /\ appointments[i].status \in {"pending", "confirmed"}})

\* next(a for a in appointments if status == 'in_progress'): the first one in
\* the order the store lists them, which the store does not fix
current_serving_choices(appointment_id) ==
  LET appointment == appointments[appointment_id]
      todays == db_get_appointments_by_doctor_date(appointment.doctor_id, Today)
      serving == {i \in todays : appointments[i].status = "in_progress"}
  IN IF serving = {} THEN {0}
     ELSE {appointments[i].queue_number : i \in serving}

get_queue_position(appointment_id) ==
  /\ IF ~db_get_appointment_by_id(appointment_id)
     THEN last' = Response("get_queue_position", appointment_id, "not_found", 0, 0)
     ELSE \E current_token \in current_serving_choices(appointment_id) :
            last' = Response("get_queue_position", appointment_id, "ok",
                             ahead_count(appointment_id) * SlotMinutes,
                             current_token)
  /\ audit_down' = FALSE
  /\ UNCHANGED <<backend, faults, store, prescriptions, unavailability,
                 doctor_notes, uploads, in_flight, calc>>

(* ---------------------------------------------------------------------- *)
(* Settings router                                                         *)
(* ---------------------------------------------------------------------- *)
\* custom_meet_link of the request: "unset" (field left out), None or a link
update_doctor_settings(doctor_id, custom_meet_link) ==
  /\ \E fail \in FaultChoices :
       IF fail
       THEN /\ last' = Response("update_doctor_settings", 0,
                                IF Propagates("update_doctor_settings")
                                THEN "internal" ELSE "ok", 0, 0)
            /\ UNCHANGED settings
       ELSE /\ settings' = [settings EXCEPT ![doctor_id] =
                              IF custom_meet_link # "unset" THEN custom_meet_link
                              ELSE IF @ = "no_settings" THEN None ELSE @]
            /\ last' = Response("update_doctor_settings", 0, "ok", 0, 0)
  /\ audit_down' = FALSE
  /\ UNCHANGED <<backend, faults, appointments, consultations, messages, reputations,
                 prescriptions, unavailability, doctor_notes, uploads,
                 in_flight, calc>>

(* ---------------------------------------------------------------------- *)
(* Initial state and next-state relation                                   *)
(* ---------------------------------------------------------------------- *)
\* rows an SQLite file can hold when the service starts: the appointments
\* router never writes to SQLite, so these are the only appointments the
\* consultation router can see in SQLite mode
SeedKinds == {<<"offline", None>>, <<"online", None>>, <<"online", MeetLink>>}

SeedRow(i, kind) ==
  [patient_id |-> PatientId,
   doctor_id |-> "doc1",
   status |-> "confirmed",
   mode |-> kind[1],
   queue_number |-> i,
   queue_date |-> Today,
   meet_link |-> kind[2]]

SeedTables ==
  UNION {{[i \in 1..n |-> SeedRow(i, k[i])] : k \in [1..n -> SeedKinds]} : n \in 0..MaxAppts}

InitStore ==
  /\ backend \in Backends
  /\ appointments \in (IF backend = "sqlite" THEN SeedTables ELSE {<<>>})
  /\ consultations = <<>>
  /\ messages = <<>>
  /\ reputations = <<>>
  /\ settings = [d \in RegisteredDoctors |-> "no_settings"]
  /\ prescriptions = <<>>
  /\ unavailability = <<>>
  /\ doctor_notes = <<>>
  /\ uploads = {}
  /\ in_flight = [w \in Workers |-> Idle]
  /\ audit_down = FALSE
  /\ calc = [fn |-> "none"]
  /\ last = Response("init", 0, "ok", 0, 0)

Init == InitStore /\ faults = FALSE

InitFaults == InitStore /\ faults = TRUE

\* statuses a doctor sends to update_appointment_status, and the (date, mode)
\* pairs patients book, in the runs explored
StatusInputs == {"confirmed", "in_progress", "completed", "cancelled", "no_show"}

\* what a doctor prescribes in the runs explored
Medications == {"amoxicillin"}

AdvisedTests == {"cbc"}

Bookings == {b \in Dates \X Modes : b # <<"tomorrow", "online">>}

Next ==
  \/ \E d \in DoctorIds, b \in Bookings : create_appointment(d, b[1], b[2])
  \/ \E a \in AIds : cancel_appointment(a)
  \/ \E a \in AIds : submit_patient_profile(a)
  \/ \E a \in AIds, s \in StatusInputs : update_appointment_status(a, s)
  \/ \E a \in AIds : reassign_patient(a)
  \/ \E a \in AIds : start_consultation(a)
  \/ \E c \in CIds : finish_consultation(c)
  \/ \E c \in CIds : send_message(c)
  \/ \E a \in AIds : send_message_by_appointment(a)
  \/ \E a \in AIds : get_queue_position(a)
  \/ \E d \in RegisteredDoctors, l \in {"unset", None, MeetLink} :
       update_doctor_settings(d, l)

Spec == Init /\ [][Next]_vars

SpecFaults == InitFaults /\ [][Next]_vars

\* the prescription and unavailability endpoints, with the requests that
\* book appointments, change their status and open their sessions
NextRecords ==
  \/ \E d \in RegisteredDoctors, b \in Bookings : create_appointment(d, b[1], b[2])
  \/ \E a \in AIds, s \in StatusInputs : update_appointment_status(a, s)
  \/ \E a \in AIds : start_consultation(a)
  \/ \E c \in CIds, m \in Medications, t \in AdvisedTests :
       create_prescription(c, m, t)
  \/ \E a \in AIds : get_prescription_by_appointment(a)
  \/ get_patient_prescriptions(PatientId)
  \/ \E d \in RegisteredDoctors : set_doctor_unavailable(d)

SpecRecords == Init /\ [][NextRecords]_vars

(* ---------------------------------------------------------------------- *)
(* Reputation reports through the database service                         *)
(* ---------------------------------------------------------------------- *)
Patients == {"p1", "p2"}

ReportActions == {"no_show", "completed"}

\* the record of a patient after 24 completed visits and nothing else
VeteranRecord ==
  [no_show_count |-> 0, completed_appointments |-> 24,
   reputation_score |-> 98, total_appointments |-> 24]

db_update_patient_reputation(patient_id, action) ==
  CASE execute_with_fallback("update_patient_reputation") = "firebase" ->
         FB_update_patient_reputation(patient_id, action)
    [] execute_with_fallback("update_patient_reputation") = "sqlite" ->
         SQL_update_patient_reputation(patient_id, action)
    [] OTHER -> reputations

\* one call of db.update_patient_reputation; calc counts the calls made
update_patient_reputation(patient_id, action) ==
  /\ calc.reports < MaxChain
  /\ reputations' = db_update_patient_reputation(patient_id, action)
  /\ calc' = [fn |-> "update_patient_reputation", reports |-> calc.reports + 1]
  /\ last' = Response("update_patient_reputation", patient_id, "ok", action, 0)
  /\ UNCHANGED <<backend, faults, appointments, consultations, messages,
                 settings, prescriptions, unavailability,
                 doctor_notes, uploads, in_flight, audit_down>>

InitReputation ==
  /\ backend \in Backends
  /\ faults = FALSE
  /\ appointments = <<>>
  /\ consultations = <<>>
  /\ messages = <<>>
  /\ \E known \in SUBSET Patients :
       reputations = [p \in known |-> VeteranRecord]
  /\ settings = [d \in RegisteredDoctors |-> "no_settings"]
  /\ prescriptions = <<>>
  /\ unavailability = <<>>
  /\ doctor_notes = <<>>
  /\ uploads = {}
  /\ in_flight = [w \in Workers |-> Idle]
  /\ audit_down = FALSE
  /\ calc = [fn |-> "update_patient_reputation", reports |-> 0]
  /\ last = Response("init", 0, "ok", 0, 0)

NextReputation ==
  \E p \in Patients, a \in ReportActions : update_patient_reputation(p, a)

SpecReputation == InitReputation /\ [][NextReputation]_vars

(* ---------------------------------------------------------------------- *)
(* EncryptionService: message encryption                                   *)
(* ---------------------------------------------------------------------- *)
\* the variables of the request handlers, which the service functions
\* below neither read nor write
handler_state ==
  <<backend, faults, appointments, consultations, messages, reputations,
    settings, prescriptions, unavailability,
    doctor_notes, uploads, in_flight, audit_down, last>>

HandlersIdle ==
  /\ backend = "sqlite"
  /\ faults = FALSE
  /\ appointments = <<>>
  /\ consultations = <<>>
  /\ messages = <<>>
  /\ reputations = <<>>
  /\ settings = [d \in RegisteredDoctors |-> "no_settings"]
  /\ prescriptions = <<>>
  /\ unavailability = <<>>
  /\ doctor_notes = <<>>
  /\ uploads = {}
  /\ in_flight = [w \in Workers |-> Idle]
  /\ audit_down = FALSE
  /\ last = Response("init", 0, "ok", 0, 0)

\* bytes are two bits wide here; "a" and "b" are one-byte characters, the
\* multi-byte character is the lead byte 2 followed by the continuation 3
Bytes == 0..3

Chars == {"a", "b", "é"}

ConsultationIds == {"c1", "c2"}

IVs == {"iv1", "iv2"}

SeqsUpTo(S, n) == UNION {[1..k -> S] : k \in 0..n}

Strings == SeqsUpTo(Chars, MaxStrLen)

utf8_char(c) ==
  CASE c = "a" -> <<0>>
    [] c = "b" -> <<1>>
    [] OTHER -> <<2, 3>>

RECURSIVE utf8_encode(_)
\* str.encode('utf-8')
utf8_encode(str) ==
  IF str = <<>> THEN <<>>
  ELSE utf8_char(Head(str)) \o utf8_encode(Tail(str))

RECURSIVE utf8_decode(_)
\* bytes.decode('utf-8'): ok = FALSE stands for UnicodeDecodeError
utf8_decode(bytes) ==
  IF bytes = <<>> THEN [ok |-> TRUE, str |-> <<>>]
  ELSE IF Head(bytes) \in {0, 1}
  THEN LET rest == utf8_decode(Tail(bytes))
       IN [ok |-> rest.ok,
           str |-> <<IF Head(bytes) = 0 THEN "a" ELSE "b">> \o rest.str]
  ELSE IF Head(bytes) = 2 /\ Len(bytes) >= 2 /\ bytes[2] = 3
  THEN LET rest == utf8_decode(Tail(Tail(bytes)))
       IN [ok |-> rest.ok, str |-> <<"é">> \o rest.str]
  ELSE [ok |-> FALSE, str |-> <<>>]

\* a ^ b on two-bit bytes
Xor(a, b) ==
  (((a % 2) + (b % 2)) % 2) + 2 * (((a \div 2) + (b \div 2)) % 2)

b64encode(bytes) == <<"base64", bytes>>

b64decode(text) == text[2]

\* sha256(master_key + f"{consultation_id}:session"): a key of KeyLen bytes
\* per consultation id, different for different ids
generate_session_key(consultation_id) ==
  [i \in 1..KeyLen |->
     IF consultation_id = "c1" THEN i % 4 ELSE (3 * i + 1) % 4]

\* mutation of simple_xor: the key is not repeated, zip stops at its end
simple_xor_once(data, key) ==
  [i \in 1..Min(Len(data), Len(key)) |-> Xor(data[i], key[i])]

\* bytes(a ^ b for a, b in zip(data, (key * (len(data) // len(key) + 1))[:len(data)]))
simple_xor(data, key) ==
  [i \in 1..Len(data) |-> Xor(data[i], key[((i - 1) % Len(key)) + 1])]

\* AESGCM(key).encrypt(iv, data, None): an authenticated ciphertext, which
\* only the same key and nonce open and only while it is intact
AESGCM_encrypt(key, iv, data) ==
  [key |-> key, iv |-> iv, body |-> data, tag |-> "intact"]

\* AESGCM(key).decrypt(iv, ciphertext, None): ok = FALSE stands for InvalidTag
AESGCM_decrypt(key, iv, ciphertext) ==
  IF ciphertext.key = key /\ ciphertext.iv = iv /\ ciphertext.tag = "intact"
  THEN [ok |-> TRUE, data |-> ciphertext.body]
  ELSE [ok |-> FALSE, data |-> <<>>]

\* the (encrypted_content, iv) pair encrypt_message returns when generate_iv
\* returns iv
encrypt_message_with(plaintext, consultation_id, iv) ==
  LET session_key == generate_session_key(consultation_id)
      ciphertext == IF calc.CRYPTO_AVAILABLE
                    THEN AESGCM_encrypt(session_key, iv, utf8_encode(plaintext))
                    ELSE simple_xor(utf8_encode(plaintext), session_key)
  IN <<b64encode(ciphertext), b64encode(iv)>>

\* what decrypt_message returns: ok = FALSE stands for a raised exception
decrypt_message_result(encrypted_content, iv, consultation_id) ==
  LET session_key == generate_session_key(consultation_id)
      ciphertext == b64decode(encrypted_content)
      iv_bytes == b64decode(iv)
  IN IF calc.CRYPTO_AVAILABLE
     THEN LET opened == AESGCM_decrypt(session_key, iv_bytes, ciphertext)
          IN IF opened.ok THEN utf8_decode(opened.data)
             ELSE [ok |-> FALSE, str |-> <<>>]
     ELSE utf8_decode(simple_xor(ciphertext, session_key))

\* the ciphertexts someone who changes one stored ciphertext can produce
Altered(encrypted_content) ==
  LET ciphertext == b64decode(encrypted_content)
  IN IF calc.CRYPTO_AVAILABLE
     THEN {b64encode([ciphertext EXCEPT !.tag = "altered"])}
     ELSE {b64encode([ciphertext EXCEPT ![k] = Xor(@, m)]) :
             k \in DOMAIN ciphertext, m \in 1..3}
          \cup {b64encode(Append(ciphertext, b)) : b \in Bytes}
          \cup {b64encode(SubSeq(ciphertext, 1, Len(ciphertext) - 1)) :
                  k \in DOMAIN ciphertext}

encrypt_message(plaintext, consultation_id) ==
  /\ calc.fn \in {"import", "decrypt_message"}
  /\ \E iv \in IVs :
       LET pair == encrypt_message_with(plaintext, consultation_id, iv)
       IN calc' = [fn |-> "encrypt_message",
                   CRYPTO_AVAILABLE |-> calc.CRYPTO_AVAILABLE,
                   plaintext |-> plaintext,
                   consultation_id |-> consultation_id,
                   encrypted_content |-> pair[1],
                   iv |-> pair[2]]
  /\ UNCHANGED handler_state

\* decrypt_message applied to the pair of the last encrypt_message call or to
\* a changed pair; sent is what was encrypted, given what is decrypted
decrypt_message(encrypted_content, iv, consultation_id) ==
  /\ calc.fn = "encrypt_message"
  /\ LET result == decrypt_message_result(encrypted_content, iv, consultation_id)
     IN calc' = [fn |-> "decrypt_message",
                 CRYPTO_AVAILABLE |-> calc.CRYPTO_AVAILABLE,
                 sent |-> [plaintext |-> calc.plaintext,
                           consultation_id |-> calc.consultation_id,
                           encrypted_content |-> calc.encrypted_content,
                           iv |-> calc.iv],
                 given |-> [encrypted_content |-> encrypted_content,
                            iv |-> iv,
                            consultation_id |-> consultation_id],
                 raised |-> ~result.ok,
                 returned |-> result.str]
  /\ UNCHANGED handler_state

\* CRYPTO_AVAILABLE is fixed when the module is imported
InitCrypto ==
  /\ HandlersIdle
  /\ \E available \in BOOLEAN :
       calc = [fn |-> "import", CRYPTO_AVAILABLE |-> available]

\* the ciphertexts handed to decrypt_message: the one encrypt_message
\* returned last and the changed ones
Ciphertexts ==
  IF calc.fn = "encrypt_message"
  THEN {calc.encrypted_content} \cup Altered(calc.encrypted_content)
  ELSE {}

NextCrypto ==
  \/ \E s \in Strings, c \in ConsultationIds : encrypt_message(s, c)
  \/ \E content \in Ciphertexts, iv \in {b64encode(i) : i \in IVs},
        c \in ConsultationIds :
       decrypt_message(content, iv, c)

SpecCrypto == InitCrypto /\ [][NextCrypto]_vars

(* ---------------------------------------------------------------------- *)
(* Security utilities: file names and attachments                          *)
(* ---------------------------------------------------------------------- *)
\* characters of a file name; NUL, LF and CR stand for '\0', '\n', '\r'
NameChars == {"a", ".", "/", "\\", "NUL", "LF", "CR"}

Filenames == SeqsUpTo(NameChars, MaxNameLen)

\* the separators os.path splits at: posixpath and ntpath
Separators == IF calc.os = "posix" THEN {"/"} ELSE {"/", "\\"}

\* os.path.basename: what follows the last separator
basename(filename) ==
  LET seps == {i \in DOMAIN filename : filename[i] \in Separators}
  IN IF seps = {} THEN filename
     ELSE SubSeq(filename, SetMax(seps) + 1, Len(filename))

RECURSIVE replace_dotdot(_)
\* filename.replace('..', ''): occurrences are removed from left to right,
\* without looking again at what the removals bring together
replace_dotdot(filename) ==
  IF Len(filename) < 2 THEN filename
  ELSE IF filename[1] = "." /\ filename[2] = "."
  THEN replace_dotdot(Tail(Tail(filename)))
  ELSE <<Head(filename)>> \o replace_dotdot(Tail(filename))

\* filename.replace(char, '') for a one-character string
replace_char(filename, char) == SelectSeq(filename, LAMBDA c : c # char)

NameLimit == 255

\* os.path.splitext: the extension starts at the last dot, unless only
\* dots precede it
splitext(filename) ==
  LET dots == {i \in DOMAIN filename : filename[i] = "."}
      k == SetMax(dots)
  IN IF dots = {} \/ \A i \in 1..k : filename[i] = "."
     THEN <<filename, <<>>>>
     ELSE <<SubSeq(filename, 1, k - 1), SubSeq(filename, k, Len(filename))>>

limit_length(filename) ==
  IF Len(filename) > NameLimit
  THEN LET name == splitext(filename)[1]
           ext == splitext(filename)[2]
       IN SubSeq(name, 1, Min(Len(name), Max(0, NameLimit - Len(ext)))) \o ext
  ELSE filename

\* the string sanitize_filename returns
sanitized(filename) ==
  limit_length(
    replace_char(replace_char(replace_char(replace_char(replace_char(
      replace_dotdot(basename(filename)), "/"), "\\"), "NUL"), "LF"), "CR"))

ALLOWED_IMAGE_TYPES == {"image/jpeg", "image/png", "image/gif", "image/webp"}

ALLOWED_DOCUMENT_TYPES ==
  {"application/pdf", "application/msword",
   "application/vnd.openxmlformats-officedocument.wordprocessingml.document"}

ALLOWED_ATTACHMENT_TYPES == ALLOWED_IMAGE_TYPES \cup ALLOWED_DOCUMENT_TYPES

MAX_FILE_SIZE_BYTES == 10 * 1024 * 1024

\* the magic bytes per mime type, each byte written as a token
signatures ==
  [m \in {"image/jpeg", "image/png", "image/gif", "image/webp",
          "application/pdf"} |->
     CASE m = "image/jpeg" -> {<<"xFF", "xD8", "xFF">>}
       [] m = "image/png" ->
            {<<"x89", "P", "N", "G", "CR", "LF", "x1A", "LF">>}
       [] m = "image/gif" -> {<<"G", "I", "F", "8", "7", "a">>,
                              <<"G", "I", "F", "8", "9", "a">>}
       [] m = "image/webp" -> {<<"R", "I", "F", "F">>}
       [] OTHER -> {<<"%", "P", "D", "F">>}]

\* content[:len(sig)] == sig; content.head holds the first bytes of the
\* content, up to eight of them
starts_with(content, sig) ==
  /\ Len(content.head) >= Len(sig)
  /\ SubSeq(content.head, 1, Len(sig)) = sig

\* mutation of verify_file_signature: the magic bytes are not compared
verify_file_signature_unchecked(content, mime_type) ==
  content.length >= 8

verify_file_signature(content, mime_type) ==
  IF content.length < 8 THEN FALSE
  ELSE IF mime_type \notin DOMAIN signatures THEN TRUE
  ELSE \E sig \in signatures[mime_type] : starts_with(content, sig)

\* the (is_valid, error_message) pair validate_attachment returns
validate_attachment_result(content, filename, mime_type) ==
  IF content.length > MAX_FILE_SIZE_BYTES
  THEN <<FALSE, "File too large">>
  ELSE IF mime_type \notin ALLOWED_ATTACHMENT_TYPES
  THEN <<FALSE, "File type not allowed">>
  ELSE IF sanitized(filename) = <<>>
  THEN <<FALSE, "Invalid filename">>
  ELSE IF ~verify_file_signature(content, mime_type)
  THEN <<FALSE, "File content does not match claimed type">>
  ELSE <<TRUE, "">>

\* the mime types declared in the calls explored
MimeTypes ==
  ALLOWED_ATTACHMENT_TYPES \cup {"application/x-msdownload", "text/html"}

\* the first eight bytes of the files explored
Heads ==
  {<<"%", "P", "D", "F", "-", "1", ".", "4">>,
   <<"x89", "P", "N", "G", "CR", "LF", "x1A", "LF">>,
   <<"x89", "P", "N", "G", "CR", "LF", "x1A", "x00">>,
   <<"xFF", "xD8", "xFF", "xE0", "x00", "x10", "J", "F">>,
   <<"G", "I", "F", "8", "7", "a", "x01", "x00">>,
   <<"G", "I", "F", "8", "9", "a", "x01", "x00">>,
   <<"G", "I", "F", "8", "8", "a", "x01", "x00">>,
   <<"R", "I", "F", "F", "x24", "x00", "x00", "x00">>,
   <<"M", "Z", "x90", "x00", "x03", "x00", "x00", "x00">>,
   <<"P", "K", "x03", "x04", "x14", "x00", "x06", "x00">>}

Lengths == {0, 4, 7, 8, MAX_FILE_SIZE_BYTES, MAX_FILE_SIZE_BYTES + 1}

\* a file content: its length and its first bytes
Contents ==
  {[length |-> n, head |-> SubSeq(h, 1, Min(n, 8))] : n \in Lengths, h \in Heads}

\* the two functions keep no state between calls: a run makes one call
sanitize_filename(filename) ==
  /\ calc.fn = "import"
  /\ calc' = [fn |-> "sanitize_filename", os |-> calc.os,
              filename |-> filename, returned |-> sanitized(filename)]
  /\ UNCHANGED handler_state

validate_attachment(content, filename, mime_type) ==
  /\ calc.fn = "import"
  /\ LET result == validate_attachment_result(content, filename, mime_type)
     IN calc' = [fn |-> "validate_attachment", os |-> calc.os,
                 content |-> content, filename |-> filename,
                 mime_type |-> mime_type,
                 is_valid |-> result[1], error_message |-> result[2]]
  /\ UNCHANGED handler_state

\* os.path is posixpath or ntpath, fixed by the platform the service runs on
InitFiles ==
  /\ HandlersIdle
  /\ \E os \in {"posix", "nt"} : calc = [fn |-> "import", os |-> os]

NextFiles ==
  \/ \E f \in Filenames : sanitize_filename(f)
  \/ \E c \in Contents, f \in {<<"a">>, <<".", ".">>, <<"a", ".", "a">>},
        m \in MimeTypes :
       validate_attachment(c, f, m)

SpecFiles == InitFiles /\ [][NextFiles]_vars

(* ---------------------------------------------------------------------- *)
(* Session status, clinical notes and attachments                          *)
(* ---------------------------------------------------------------------- *)
\* the updates update_consultation_status builds for the requested status
status_updates(status) ==
  CASE status = "patient_arrived" ->
         [status |-> status, updated_at |-> "isoformat_string",
          patient_joined_at |-> "isoformat_string"]
    [] status = "in_progress" ->
         [status |-> status, updated_at |-> "isoformat_string",
          started_at |-> "isoformat_string"]
    [] status = "completed" ->
         [status |-> status, updated_at |-> "isoformat_string",
          ended_at |-> "isoformat_string"]
    [] OTHER ->
         [status |-> status, updated_at |-> "isoformat_string"]

update_consultation_status(consultation_id, status) ==
  /\ IF ~db_get_consultation_by_id(consultation_id)
     THEN /\ last' = Response("update_consultation_status", consultation_id,
                              "not_found", status, 0)
          /\ UNCHANGED store
     ELSE LET updates == status_updates(status)
          IN \E fail \in FaultChoices :
               IF /\ fail \/ SQL_update_consultation_raises(updates)
                  /\ Propagates("update_consultation")
               THEN /\ last' = Response("update_consultation_status",
                                        consultation_id, "internal", status, 0)
                    /\ UNCHANGED store
               ELSE /\ consultations' =
                         IF fail THEN consultations
                         ELSE db_update_consultation(consultation_id, updates)
                    /\ last' = Response("update_consultation_status",
                                        consultation_id, "ok", status, 0)
                    /\ UNCHANGED <<appointments, messages, reputations, settings>>
  /\ audit_down' = FALSE
  /\ UNCHANGED <<backend, faults, prescriptions, unavailability,
                 doctor_notes, uploads, in_flight, calc>>

\* provisional_diagnosis of the DoctorNotesUpdate bodies explored
NoteInputs == {None, "draft_dx"}

update_doctor_notes(consultation_id, provisional_diagnosis) ==
  /\ IF ~db_get_consultation_by_id(consultation_id)
     THEN /\ last' = Response("update_doctor_notes", consultation_id,
                              "not_found", 0, 0)
          /\ UNCHANGED doctor_notes
     ELSE LET existing_notes ==
                db_get_doctor_notes_by_consultation(consultation_id)
              \* {k: v for k, v in notes.model_dump().items() if v is not None}
              updates ==
                IF provisional_diagnosis = None
                THEN [updated_at |-> "isoformat_string"]
                ELSE [provisional_diagnosis |-> provisional_diagnosis,
                      updated_at |-> "isoformat_string"]
          IN \E fail \in FaultChoices :
               IF fail /\ Propagates("update_doctor_notes")
               THEN /\ last' = Response("update_doctor_notes", consultation_id,
                                        "internal", 0, 0)
                    /\ UNCHANGED doctor_notes
               ELSE /\ doctor_notes' =
                         IF fail THEN doctor_notes
                         ELSE IF existing_notes # 0
                         THEN db_update_doctor_notes(existing_notes, updates)
                         ELSE db_create_doctor_notes(
                                [consultation_id |-> consultation_id,
                                 provisional_diagnosis |-> provisional_diagnosis])
                    /\ last' = Response("update_doctor_notes", consultation_id,
                                        "ok", 0, 0)
  /\ audit_down' = FALSE
  /\ UNCHANGED <<backend, faults, store, prescriptions, unavailability,
                 uploads, in_flight, calc>>

\* the files uploaded in the runs explored: a PDF, and an executable
\* declared as a PDF
UploadFiles ==
  {[content |-> [length |-> 8, head |-> <<"%", "P", "D", "F", "-", "1", ".", "4">>],
    filename |-> <<"a">>, mime_type |-> "application/pdf"],
   [content |-> [length |-> 8,
                 head |-> <<"M", "Z", "x90", "x00", "x03", "x00", "x00", "x00">>],
    filename |-> <<"a">>, mime_type |-> "application/pdf"]}

\* the file is written under uploads/{consultation_id} before the session
\* is looked up; consultation.get(...) on the None of a missing session
\* raises AttributeError, which the handler answers with 500
upload_attachment(consultation_id, file) ==
  /\ LET result == validate_attachment_result(file.content, file.filename,
                                              file.mime_type)
     IN IF ~result[1]
        THEN /\ last' = Response("upload_attachment", consultation_id,
                                 "bad_request", 0, 0)
             /\ UNCHANGED <<uploads, messages>>
        ELSE \E fail \in FaultChoices :
               IF fail
               THEN /\ last' = Response("upload_attachment", consultation_id,
                                        "internal", 0, 0)
                    /\ UNCHANGED <<uploads, messages>>
               ELSE /\ uploads' = uploads \cup {consultation_id}
                    /\ IF ~db_get_consultation_by_id(consultation_id)
                       THEN /\ last' = Response("upload_attachment",
                                                consultation_id, "internal", 0, 0)
                            /\ UNCHANGED messages
                       ELSE /\ messages' =
                                 IF db_create_message = "stored"
                                 THEN Append(messages,
                                             [consultation_id |-> consultation_id,
                                              encrypted_content |-> "ciphertext",
                                              iv |-> "iv"])
                                 ELSE messages
                            /\ last' =
                                 IF db_create_message = "raise"
                                 THEN Response("upload_attachment",
                                               consultation_id, "internal", 0, 0)
                                 ELSE Response("upload_attachment",
                                               consultation_id, "ok", 0, 0)
  /\ audit_down' = FALSE
  /\ UNCHANGED <<backend, faults, appointments, consultations, reputations,
                 settings, prescriptions, unavailability, doctor_notes,
                 in_flight, calc>>

\* the life of a session: started, moved between statuses, annotated, finished
NextSessions ==
  \/ \E a \in AIds : start_consultation(a)
  \/ \E c \in CIds, s \in ConsultationStatus : update_consultation_status(c, s)
  \/ \E c \in CIds, d \in NoteInputs : update_doctor_notes(c, d)
  \/ \E c \in CIds : finish_consultation(c)

SpecSessions == Init /\ [][NextSessions]_vars

\* the stores as the service finds them at start-up, on either platform
InitLookups ==
  /\ backend \in Backends
  /\ faults = FALSE
  /\ appointments \in (IF backend = "sqlite" THEN SeedTables ELSE {<<>>})
  /\ consultations = <<>>
  /\ messages = <<>>
  /\ reputations = <<>>
  /\ settings = [d \in RegisteredDoctors |-> "no_settings"]
  /\ prescriptions = <<>>
  /\ unavailability = <<>>
  /\ doctor_notes = <<>>
  /\ uploads = {}
  /\ in_flight = [w \in Workers |-> Idle]
  /\ audit_down = FALSE
  /\ \E os \in {"posix", "nt"} : calc = [fn |-> "import", os |-> os]
  /\ last = Response("init", 0, "ok", 0, 0)

\* the operations that are addressed to an appointment id or to a
\* consultation id
NextLookups ==
  \/ \E a \in AIds : cancel_appointment(a)
  \/ \E a \in AIds : reassign_patient(a)
  \/ \E a \in AIds : get_queue_position(a)
  \/ \E a \in AIds : start_consultation(a)
  \/ \E c \in CIds : update_consultation_status(c, "paused")
  \/ \E c \in CIds : finish_consultation(c)
  \/ \E c \in CIds : send_message(c)
  \/ \E c \in CIds, f \in UploadFiles : upload_attachment(c, f)
  \/ \E c \in CIds, m \in Medications, t \in AdvisedTests :
       create_prescription(c, m, t)

SpecLookups == InitLookups /\ [][NextLookups]_vars

\* a session row written before start_consultation refused to create an
\* online session without a link: the row the repair pass of the handler is
\* there for ("maybe doctor just updated it")
LegacySession ==
  [appointment_id |-> 1, doctor_id |-> "doc1", status |-> "waiting",
   is_online |-> TRUE, meet_link |-> None, current_token |-> 1,
   consultation_started_at |-> None, ended_at |-> None]

\* an SQLite file that holds such a row for its first appointment
InitRepair ==
  /\ backend = "sqlite"
  /\ faults = FALSE
  /\ appointments \in {t \in SeedTables :
                         /\ Len(t) >= 1
                         /\ t[1].mode = "online"
                         /\ t[1].meet_link = None}
  /\ consultations = <<LegacySession>>
  /\ messages = <<>>
  /\ reputations = <<>>
  /\ settings = [d \in RegisteredDoctors |-> "no_settings"]
  /\ prescriptions = <<>>
  /\ unavailability = <<>>
  /\ doctor_notes = <<>>
  /\ uploads = {}
  /\ in_flight = [w \in Workers |-> Idle]
  /\ audit_down = FALSE
  /\ calc = [fn |-> "none"]
  /\ last = Response("init", 0, "ok", 0, 0)

NextRepair ==
  \/ \E d \in RegisteredDoctors, l \in {"unset", None, MeetLink} :
       update_doctor_settings(d, l)
  \/ \E a \in AIds : start_consultation(a)
  \/ \E c \in CIds, s \in ConsultationStatus : update_consultation_status(c, s)
  \/ \E c \in CIds : finish_consultation(c)

SpecRepair == InitRepair /\ [][NextRepair]_vars

(* ---------------------------------------------------------------------- *)
(* Requests served at the same time                                        *)
(*                                                                         *)
(* A handler makes its store calls one after the other, outside any        *)
(* transaction and without a lock; the calls of two requests that two      *)
(* workers serve against the same store interleave.  Here a handler is one *)
(* step per store call that another request can observe or overtake.       *)
(* ---------------------------------------------------------------------- *)
side_records ==
  <<messages, reputations, settings, prescriptions, unavailability,
    doctor_notes, uploads>>

\* create_appointment up to the computed queue_number: the doctor lookup and
\* the read of the day's appointments
create_appointment_read(w, doctor_id, queue_date, mode) ==
  /\ in_flight[w].pc = "idle"
  /\ Len(appointments)
       + Cardinality({v \in Workers : in_flight[v].pc = "booking"}) < MaxAppts
  /\ IF ~FB_get_doctor_by_id(doctor_id)
     THEN /\ last' = Response("create_appointment", 0, "not_found", 0, 0)
          /\ UNCHANGED in_flight
     ELSE LET existing_appointments ==
                FB_get_appointments_by_doctor_date(doctor_id, queue_date)
          IN /\ in_flight' =
                  [in_flight EXCEPT ![w] =
                     [Idle EXCEPT !.pc = "booking",
                                  !.op = "create_appointment",
                                  !.doctor_id = doctor_id,
                                  !.queue_date = queue_date,
                                  !.mode = mode,
                                  !.seen = existing_appointments,
                                  !.queue_number =
                                     Cardinality(existing_appointments) + 1]]
             /\ UNCHANGED last
  /\ UNCHANGED <<backend, faults, appointments, consultations, side_records,
                 audit_down, calc>>

\* mutation of create_appointment_write: the day's appointments are counted
\* again in the transaction that stores the appointment
create_appointment_write_counted(w) ==
  /\ in_flight[w].pc = "booking"
  /\ LET request == in_flight[w]
         queue_number ==
           Cardinality(FB_get_appointments_by_doctor_date(
                         request.doctor_id, request.queue_date)) + 1
         appointment_id == Len(appointments) + 1
     IN /\ appointments' = Append(appointments,
             [patient_id |-> PatientId,
              doctor_id |-> request.doctor_id,
              status |-> "pending",
              mode |-> request.mode,
              queue_number |-> queue_number,
              queue_date |-> request.queue_date,
              meet_link |-> None])
        /\ last' = Response("create_appointment", appointment_id, "ok",
                            queue_number, 0)
        /\ in_flight' = [in_flight EXCEPT ![w].pc = "done",
                                          ![w].id = appointment_id,
                                          ![w].code = "ok"]
  /\ audit_down' = FALSE
  /\ UNCHANGED <<backend, faults, consultations, side_records, calc>>

\* the rest of create_appointment: firebase.create_appointment with the
\* queue_number computed from the list that was read, and the answer
create_appointment_write(w) ==
  /\ in_flight[w].pc = "booking"
  /\ LET request == in_flight[w]
         appointment_id == Len(appointments) + 1
     IN /\ appointments' = Append(appointments,
             [patient_id |-> PatientId,
              doctor_id |-> request.doctor_id,
              status |-> "pending",
              mode |-> request.mode,
              queue_number |-> request.queue_number,
              queue_date |-> request.queue_date,
              meet_link |-> None])
        /\ last' = Response("create_appointment", appointment_id, "ok",
                            request.queue_number, 0)
        /\ in_flight' = [in_flight EXCEPT ![w].pc = "done",
                                          ![w].id = appointment_id,
                                          ![w].code = "ok"]
  /\ audit_down' = FALSE
  /\ UNCHANGED <<backend, faults, consultations, side_records, calc>>

\* start_consultation up to the enforcement of the meet link: the lookups of
\* the appointment and of its session, the path of an existing session, and
\* the session object built for a new one
start_consultation_read(w, appointment_id) ==
  /\ in_flight[w].pc = "idle"
  /\ IF ~db_get_appointment_by_id(appointment_id)
     THEN /\ last' = Response("start_consultation", appointment_id,
                              "not_found", 0, 0)
          /\ UNCHANGED <<store, in_flight>>
     ELSE LET existing == db_get_consultation_by_appointment(appointment_id)
              appointment == appointments[appointment_id]
              is_online == appointment.mode = "online"
              meet_link == IF is_online /\ appointment.meet_link = None
                           THEN db_get_custom_meet_link(appointment.doctor_id)
                           ELSE appointment.meet_link
          IN IF existing # 0
             THEN /\ start_existing(appointment_id, existing)
                  /\ in_flight' =
                       [in_flight EXCEPT ![w] =
                          [Idle EXCEPT !.pc = "done",
                                       !.op = "start_consultation",
                                       !.id = appointment_id,
                                       !.consultation_id = existing,
                                       !.code = last'.code]]
             ELSE IF meet_link_missing(is_online, meet_link)
             THEN /\ last' = Response("start_consultation", appointment_id,
                                      "MEET_LINK_MISSING", 0, 0)
                  /\ in_flight' =
                       [in_flight EXCEPT ![w] =
                          [Idle EXCEPT !.pc = "done",
                                       !.op = "start_consultation",
                                       !.id = appointment_id,
                                       !.code = "MEET_LINK_MISSING"]]
                  /\ UNCHANGED store
             ELSE /\ in_flight' =
                       [in_flight EXCEPT ![w] =
                          [Idle EXCEPT !.pc = "starting",
                                       !.op = "start_consultation",
                                       !.id = appointment_id,
                                       !.doctor_id = appointment.doctor_id,
                                       !.mode = appointment.mode,
                                       !.meet_link = meet_link,
                                       !.queue_number =
                                          appointment.queue_number]]
                  /\ UNCHANGED <<store, last>>
  /\ audit_down' = FALSE
  /\ UNCHANGED <<backend, faults, prescriptions, unavailability, doctor_notes,
                 uploads, calc>>

\* db.create_consultation(consultation.model_dump())
start_consultation_create(w) ==
  /\ in_flight[w].pc = "starting"
  /\ LET request == in_flight[w]
         consultation == [appointment_id |-> request.id,
                          doctor_id |-> request.doctor_id,
                          status |-> "in_progress",
                          is_online |-> request.mode = "online",
                          meet_link |-> request.meet_link,
                          current_token |-> request.queue_number,
                          created_at |-> "datetime"]
         consultation_id ==
           IF execute_with_fallback("create_consultation") = "sqlite"
           THEN Len(consultations) + 1 ELSE 0
     IN /\ consultations' = db_create_consultation(consultation)
        /\ in_flight' = [in_flight EXCEPT ![w].pc = "created",
                                          ![w].consultation_id = consultation_id]
  /\ UNCHANGED <<backend, faults, appointments, side_records, audit_down,
                 calc, last>>

\* the rest of start_consultation: db.update_appointment, _log_action and
\* the answer
start_consultation_mark(w) ==
  /\ in_flight[w].pc = "created"
  /\ LET request == in_flight[w]
     IN \E audit_fail \in BOOLEAN :
          /\ appointments' = db_update_appointment(request.id,
                                                   [status |-> "in_progress"])
          /\ audit_down' = audit_fail
          /\ LET code == IF log_action_raises(audit_fail)
                         THEN "internal" ELSE "ok"
             IN /\ last' = Response("start_consultation", request.id, code,
                                    IF code = "ok" THEN request.consultation_id
                                    ELSE 0,
                                    log_action_calls)
                /\ in_flight' = [in_flight EXCEPT ![w].pc = "done",
                                                  ![w].code = code]
  /\ UNCHANGED <<backend, faults, consultations, side_records, calc>>

\* two workers, each serving one request, after the bookings and settings
\* changes that were served one at a time
NextRace ==
  \/ \E d \in RegisteredDoctors, b \in Bookings :
       /\ \A w \in Workers : in_flight[w].pc = "idle"
       /\ create_appointment(d, b[1], b[2])
  \/ \E w \in Workers, d \in RegisteredDoctors, b \in Bookings :
       create_appointment_read(w, d, b[1], b[2])
  \/ \E w \in Workers : create_appointment_write(w)
  \/ \E w \in Workers, a \in AIds : start_consultation_read(w, a)
  \/ \E w \in Workers : start_consultation_create(w)
  \/ \E w \in Workers : start_consultation_mark(w)

SpecRace == Init /\ [][NextRace]_vars

(* ---------------------------------------------------------------------- *)
(* Claims C1 .. C10                                                        *)
(* ---------------------------------------------------------------------- *)
\* C1: in every reachable state any two distinct appointments of the same
\* doctor and the same queue_date carry different queue_number values.
C1_TokensUnique ==
  \A i \in DOMAIN appointments : \A j \in DOMAIN appointments :
    ( /\ i # j
      /\ appointments[i].doctor_id = appointments[j].doctor_id
      /\ appointments[i].queue_date = appointments[j].queue_date )
    => appointments[i].queue_number # appointments[j].queue_number

\* C2: a token held by an appointment of a (doctor, queue_date) is never
\* issued to a different appointment of that doctor and date: whenever an
\* appointment is created or gets a new queue_number, the number it gets is
\* not one another appointment of its doctor and date holds at that moment.
C2_NoTokenReissued ==
  [][\A j \in DOMAIN appointments' :
       ( \/ j \notin DOMAIN appointments
         \/ appointments'[j].queue_number # appointments[j].queue_number )
       => \A i \in DOMAIN appointments :
            ( /\ i # j
              /\ appointments[i].doctor_id = appointments'[j].doctor_id
              /\ appointments[i].queue_date = appointments'[j].queue_date )
            => appointments[i].queue_number # appointments'[j].queue_number]_vars

\* C3: reassign_patient on an appointment the router finds always succeeds
\* and stores on it a queue_number strictly greater than the queue_number of
\* every appointment (itself included) stored for the same doctor and
\* queue_date when the call was made.
C3_ReassignBeyondAll ==
  [][\A a \in AIds :
       (FB_get_appointment_by_id(a) /\ reassign_patient(a))
       => /\ last'.code = "ok"
          /\ \A i \in FB_get_appointments_by_doctor_date(
                        appointments[a].doctor_id, appointments[a].queue_date) :
               appointments'[a].queue_number > appointments[i].queue_number]_vars

\* a reassignment has succeeded on an appointment that shares its doctor and
\* date with another appointment
C3_Witness ==
  /\ last.op = "reassign_patient"
  /\ last.code = "ok"
  /\ last.id \in DOMAIN appointments
  /\ appointments[last.id].queue_number = last.val
  /\ \E i \in DOMAIN appointments :
       /\ i # last.id
       /\ appointments[i].doctor_id = appointments[last.id].doctor_id
       /\ appointments[i].queue_date = appointments[last.id].queue_date

\* C4: get_queue_position answers estimated_wait_minutes = 15 x ahead_count,
\* ahead_count being the number of appointments with the same doctor and the
\* same queue_date as the queried one, a strictly smaller queue_number and
\* status pending or confirmed (0 when there is none).
C4_WaitIsFifteenPerAhead ==
  (last.op = "get_queue_position" /\ last.code = "ok")
  => last.val =
       15 * Cardinality({i \in DOMAIN appointments :
              /\ appointments[i].doctor_id = appointments[last.id].doctor_id
              /\ appointments[i].queue_date = appointments[last.id].queue_date
              /\ appointments[i].queue_number < appointments[last.id].queue_number
              /\ appointments[i].status \in {"pending", "confirmed"}})

\* C5: a start_consultation call that succeeds returns the id of a stored
\* session of the appointment, and that session is the only one stored for
\* the appointment, so a second call returns the same id and adds no record.
C5_StartReturnsTheOneSession ==
  (last.op = "start_consultation" /\ last.code = "ok")
  => /\ last.val \in DOMAIN consultations
     /\ {c \in DOMAIN consultations :
           consultations[c].appointment_id = last.id} = {last.val}

\* C6: start_consultation for an online appointment that has no session and
\* no meet_link of its own, whose doctor has no custom_meet_link (or no
\* settings at all), fails with MEET_LINK_MISSING, stores no session for the
\* appointment and leaves the appointment's status as it was.
C6_MeetLinkMissing ==
  [][\A a \in AIds :
       ( /\ db_get_appointment_by_id(a)
         /\ appointments[a].mode = "online"
         /\ appointments[a].meet_link = None
         /\ db_get_consultation_by_appointment(a) = 0
         /\ db_get_custom_meet_link(appointments[a].doctor_id) = None
         /\ start_consultation(a) )
       => /\ last'.code = "MEET_LINK_MISSING"
          /\ \A c \in DOMAIN consultations' :
               consultations'[c].appointment_id # a
          /\ appointments'[a].status = appointments[a].status]_vars

\* start_consultation has been refused for an online appointment without a
\* link, without a session and without a link in the doctor's settings
C6_Witness ==
  /\ last.op = "start_consultation"
  /\ last.code = "MEET_LINK_MISSING"
  /\ last.id \in DOMAIN appointments
  /\ appointments[last.id].mode = "online"
  /\ appointments[last.id].meet_link = None
  /\ db_get_custom_meet_link(appointments[last.id].doctor_id) = None
  /\ \A c \in DOMAIN consultations : consultations[c].appointment_id # last.id

\* C7: a session of an online appointment that has a stored message has a
\* non-null meet_link, and neither send_message nor
\* send_message_by_appointment accepts a message for an online appointment
\* whose session has no meeting link.
C7_NoMessageBeforeLink ==
  /\ \A m \in DOMAIN messages :
       LET c == consultations[messages[m].consultation_id]
       IN appointments[c.appointment_id].mode = "online" => c.meet_link # None
  /\ ( /\ last.op = "send_message_by_appointment"
       /\ last.code = "ok"
       /\ appointments[last.id].mode = "online" )
     => /\ last.val \in DOMAIN consultations
        /\ consultations[last.val].meet_link # None
  /\ ( /\ last.op = "send_message"
       /\ last.code = "ok"
       /\ appointments[consultations[last.id].appointment_id].mode = "online" )
     => consultations[last.id].meet_link # None

\* C8: start_consultation is all-or-nothing, also when a store write fails:
\* either it answers success, a session is stored for the appointment and
\* the appointment is in_progress, or it answers an error, no session was
\* added and the appointment is as it was.
C8_StartAllOrNothing ==
  [][\A a \in AIds :
       start_consultation(a)
       => \/ /\ last'.code = "ok"
             /\ \E c \in DOMAIN consultations' :
                  consultations'[c].appointment_id = a
             /\ appointments'[a].status = "in_progress"
          \/ /\ last'.code # "ok"
             /\ Len(consultations') = Len(consultations)
             /\ appointments' = appointments]_vars

\* C9: a completed or cancelled appointment keeps that status through every
\* later operation.
C9_TerminalStatus ==
  [][\A a \in DOMAIN appointments :
       appointments[a].status \in {"completed", "cancelled"}
       => appointments'[a].status = appointments[a].status]_vars

\* C10: whenever an appointment becomes completed the patient's reputation
\* record gets one more 'completed' report, and whenever it becomes no_show
\* it gets one more 'no_show' report.
C10_OutcomeReported ==
  [][\A a \in DOMAIN appointments :
       LET patient_id == appointments[a].patient_id
           completed_before ==
             IF patient_id \in DOMAIN reputations
             THEN reputations[patient_id].completed_appointments ELSE 0
           no_show_before ==
             IF patient_id \in DOMAIN reputations
             THEN reputations[patient_id].no_show_count ELSE 0
       IN /\ ( /\ appointments[a].status # "completed"
               /\ appointments'[a].status = "completed" )
             => /\ patient_id \in DOMAIN reputations'
                /\ reputations'[patient_id].completed_appointments
                     = completed_before + 1
          /\ ( /\ appointments[a].status # "no_show"
               /\ appointments'[a].status = "no_show" )
             => /\ patient_id \in DOMAIN reputations'
                /\ reputations'[patient_id].no_show_count
                     = no_show_before + 1]_vars

\* C20: the result start_consultation and finish_consultation return, and
\* every session and appointment record they write, are the same whether
\* the audit-log write succeeds or raises: each step either handler takes
\* while the audit log is failing is a step it takes while the audit log
\* works.
C20_AuditFailureSwallowed ==
  [][ audit_down' =>
        /\ \A a \in AIds : start_consultation_with(a, TRUE)
                             => start_consultation_with(a, FALSE)
        /\ \A c \in CIds : finish_consultation_with(c, TRUE)
                             => finish_consultation_with(c, FALSE) ]_vars

\* a session was finished, its appointment completed and success answered
\* while the audit log was failing
C20_Witness ==
  /\ audit_down
  /\ last.op = "finish_consultation"
  /\ last.code = "ok"
  /\ last.id \in DOMAIN consultations
  /\ consultations[last.id].status = "completed"
  /\ \E a \in DOMAIN appointments :
       /\ consultations[last.id].appointment_id = a
       /\ appointments[a].status = "completed"

\* C14: every prescription a read operation returns carries a signature
\* that verify_signature accepts for the canonical form of its stored
\* medications and advised tests, its doctor id and its creation timestamp.
C14_ReturnedPrescriptionVerifies ==
  (last.op = "get_prescription_by_appointment" /\ last.aux = "found")
  => /\ {"doctor_signature_hash", "advised_tests"} \subseteq DOMAIN last.val
     /\ verify_signature(
          content_hash(last.val.medications, last.val.advised_tests),
          last.val.doctor_id, last.val.created_at,
          last.val.doctor_signature_hash)

\* C19: after set_doctor_unavailable returns for a doctor, an unavailability
\* record of that doctor is stored whose affected_appointment_ids are the
\* ids of the doctor's appointments of today that are pending or confirmed.
C19_UnavailabilityRecorded ==
  (last.op = "set_doctor_unavailable" /\ last.code = "ok")
  => \E u \in DOMAIN unavailability :
       /\ unavailability[u].doctor_id = last.id
       /\ unavailability[u].affected_appointment_ids
            = {i \in DOMAIN appointments :
                 /\ appointments[i].doctor_id = last.id
                 /\ appointments[i].queue_date = Today
                 /\ appointments[i].status \in {"pending", "confirmed"}}

\* C11: a no_show report sets the score to max(0, score-10) and adds 1 to
\* no_show_count, a completed report sets it to min(100, score+2) and adds 1
\* to the completed count, either adds 1 to total_appointments, for every
\* prior score in 0..100; a first report behaves as if the prior score were
\* 50 with all counters 0.
C11_ReputationArithmetic ==
  [][\A p \in Patients :
       (last'.id = p /\ calc'.reports = calc.reports + 1)
       => LET prior == IF p \in DOMAIN reputations THEN reputations[p]
                       ELSE [no_show_count |-> 0, completed_appointments |-> 0,
                             reputation_score |-> 50, total_appointments |-> 0]
              no_show == last'.val = "no_show"
          IN /\ p \in DOMAIN reputations'
             /\ reputations'[p].reputation_score =
                  IF no_show THEN Max(0, prior.reputation_score - 10)
                  ELSE Min(100, prior.reputation_score + 2)
             /\ reputations'[p].no_show_count =
                  prior.no_show_count + (IF no_show THEN 1 ELSE 0)
             /\ reputations'[p].completed_appointments =
                  prior.completed_appointments + (IF no_show THEN 0 ELSE 1)
             /\ reputations'[p].total_appointments =
                  prior.total_appointments + 1]_vars

\* C12: for every plaintext string, the empty string and multi-byte text
\* included, and every consultation id, decrypt_message applied with the
\* same id to the pair encrypt_message returned gives back the plaintext.
C12_DecryptInvertsEncrypt ==
  ( /\ calc.fn = "decrypt_message"
    /\ calc.given.encrypted_content = calc.sent.encrypted_content
    /\ calc.given.iv = calc.sent.iv
    /\ calc.given.consultation_id = calc.sent.consultation_id )
  => /\ ~calc.raised
     /\ calc.returned = calc.sent.plaintext

\* multi-byte text longer than the session key went through the fallback
\* cipher and came back
C12_Witness ==
  /\ calc.fn = "decrypt_message"
  /\ ~calc.CRYPTO_AVAILABLE
  /\ calc.given.encrypted_content = calc.sent.encrypted_content
  /\ calc.given.iv = calc.sent.iv
  /\ calc.given.consultation_id = calc.sent.consultation_id
  /\ calc.sent.plaintext = <<"é", "b">>
  /\ Len(utf8_encode(calc.sent.plaintext)) > KeyLen
  /\ calc.returned = <<"é", "b">>

\* C13: decrypt_message fails and returns no plaintext whenever the
\* ciphertext was altered, the IV differs from the one produced at
\* encryption or the consultation id differs from the one used at
\* encryption, on every code path of the service.
C13_DecryptFailsClosed ==
  ( /\ calc.fn = "decrypt_message"
    /\ \/ calc.given.encrypted_content # calc.sent.encrypted_content
       \/ calc.given.iv # calc.sent.iv
       \/ calc.given.consultation_id # calc.sent.consultation_id )
  => calc.raised

\* C17: validate_attachment returns (False, reason) whenever the content is
\* larger than 10 MB, or the declared mime type is outside the allow-list,
\* or the leading bytes of the content do not match the signature of the
\* declared mime type (PDF, PNG, JPEG, GIF).
C17_AttachmentRejected ==
  ( /\ calc.fn = "validate_attachment"
    /\ \/ calc.content.length > 10 * 1024 * 1024
       \/ calc.mime_type \notin
            {"image/jpeg", "image/png", "image/gif", "image/webp",
             "application/pdf", "application/msword",
             "application/vnd.openxmlformats-officedocument.wordprocessingml.document"}
       \/ /\ calc.mime_type = "application/pdf"
          /\ ~starts_with(calc.content, <<"%", "P", "D", "F">>)
       \/ /\ calc.mime_type = "image/png"
          /\ ~starts_with(calc.content,
                          <<"x89", "P", "N", "G", "CR", "LF", "x1A", "LF">>)
       \/ /\ calc.mime_type = "image/jpeg"
          /\ ~starts_with(calc.content, <<"xFF", "xD8", "xFF">>)
       \/ /\ calc.mime_type = "image/gif"
          /\ ~starts_with(calc.content, <<"G", "I", "F", "8", "7", "a">>)
          /\ ~starts_with(calc.content, <<"G", "I", "F", "8", "9", "a">>) )
  => /\ calc.is_valid = FALSE
     /\ calc.error_message # ""

\* a file of allowed size and name declared application/pdf whose first
\* bytes are those of an executable was rejected for its content
C17_Witness ==
  /\ calc.fn = "validate_attachment"
  /\ calc.mime_type = "application/pdf"
  /\ calc.content.length = 8
  /\ calc.content.head[1] = "M"
  /\ calc.filename = <<"a", ".", "a">>
  /\ calc.is_valid = FALSE
  /\ calc.error_message = "File content does not match claimed type"

\* C18: for every input filename the result of sanitize_filename contains
\* no '/' and no backslash, no '..' sequence and no NUL, CR or LF.
C18_SanitizedIsSafe ==
  calc.fn = "sanitize_filename"
  => /\ \A i \in DOMAIN calc.returned :
          calc.returned[i] \notin {"/", "\\", "NUL", "CR", "LF"}
     /\ \A i \in 1..(Len(calc.returned) - 1) :
          ~(calc.returned[i] = "." /\ calc.returned[i + 1] = ".")

(* ---------------------------------------------------------------------- *)
(* Audit attempts, lookups and session life cycle                          *)
(* ---------------------------------------------------------------------- *)
\* C21: every start_consultation and finish_consultation request that finds
\* its appointment or session has made one audit-log write attempt when it
\* returns, whether it created a session, returned an existing one, was
\* refused or ended in an internal error.
C21_AuditAttemptOnEveryCall ==
  ( /\ last.op \in {"start_consultation", "finish_consultation"}
    /\ last.code # "not_found" )
  => last.aux = 1

\* C29: after a start_consultation request that answered success, every
\* session stored for its appointment has status in_progress and the
\* appointment has status in_progress.
C29_StartedMeansInProgress ==
  (last.op = "start_consultation" /\ last.code = "ok")
  => /\ \A c \in DOMAIN consultations :
          consultations[c].appointment_id = last.id
          => consultations[c].status = "in_progress"
     /\ appointments[last.id].status = "in_progress"

\* C30: no two appointments of one doctor and one queue date have status
\* in_progress at the same time.
C30_OneInProgressPerQueue ==
  \A a, b \in DOMAIN appointments :
    ( /\ a # b
      /\ appointments[a].doctor_id = appointments[b].doctor_id
      /\ appointments[a].queue_date = appointments[b].queue_date
      /\ appointments[a].status = "in_progress" )
    => appointments[b].status # "in_progress"

\* C22: a request of start_consultation, get_queue_position,
\* cancel_appointment or reassign_patient for an appointment id without a
\* record, and a request of update_consultation_status, finish_consultation,
\* send_message, upload_attachment or create_prescription for a consultation
\* id without a record, is answered NOT_FOUND and changes no stored record
\* and no stored attachment.
C22_MissingRecordNotFound ==
  [][ ( \/ /\ last'.op \in {"start_consultation", "get_queue_position",
                            "cancel_appointment", "reassign_patient"}
           /\ last'.id \notin DOMAIN appointments
        \/ /\ last'.op \in {"update_consultation_status", "finish_consultation",
                            "send_message", "upload_attachment",
                            "create_prescription"}
           /\ last'.id \notin DOMAIN consultations )
      => /\ last'.code = "not_found"
         /\ UNCHANGED <<appointments, consultations, messages, reputations,
                        settings, prescriptions, unavailability, doctor_notes,
                        uploads>> ]_vars

\* C24: when update_consultation_status answers success for status s, the
\* stored session has status s; for patient_arrived, in_progress and
\* completed its stored patient-joined, started and ended timestamp
\* respectively carries the time of the call; for waiting and paused the
\* stored lifecycle timestamps are the ones it had.
C24_StatusAndTimestampStored ==
  [][ (last'.op = "update_consultation_status" /\ last'.code = "ok")
      => LET before == consultations[last'.id]
             row == consultations'[last'.id]
         IN /\ row.status = last'.val
            /\ last'.val = "patient_arrived"
                 => /\ "patient_joined_at" \in DOMAIN row
                    /\ row.patient_joined_at # None
            /\ last'.val = "in_progress"
                 => row.consultation_started_at # None
            /\ last'.val = "completed" => row.ended_at # None
            /\ last'.val \in {"waiting", "paused"}
                 => /\ row.consultation_started_at
                         = before.consultation_started_at
                    /\ row.ended_at = before.ended_at ]_vars

\* C25: update_consultation_status on a session that exists answers success
\* and leaves the session with the requested status, whatever the status
\* the session had and whatever the status requested.
C25_NoTransitionRejected ==
  ( /\ last.op = "update_consultation_status"
    /\ last.id \in DOMAIN consultations )
  => /\ last.code = "ok"
     /\ consultations[last.id].status = last.val

\* C26: when finish_consultation answers success to a request that carried
\* a final diagnosis, the notes stored for the session carry that diagnosis,
\* whether or not the session had a notes row before.
C26_FinalDiagnosisRecorded ==
  [][ (last'.op = "finish_consultation" /\ last'.code = "ok")
      => \A c \in CIds, audit_fail \in BOOLEAN :
           finish_consultation_as(c, "final_dx", audit_fail)
           => \E n \in DOMAIN doctor_notes' :
                /\ doctor_notes'[n].consultation_id = c
                /\ \/ doctor_notes'[n].provisional_diagnosis = "final_dx"
                   \/ doctor_notes'[n].final_diagnosis = "final_dx" ]_vars

\* C23: start_consultation for an appointment whose stored session is online
\* and has no meet_link reads the custom_meet_link of the session's doctor
\* once: with a link configured the stored session gets that link, nothing
\* else changes and the session is returned; without one the request is
\* refused with MEET_LINK_MISSING and no record changes.
C23_OneRepairPass ==
  [][ \A a \in DOMAIN appointments :
        LET rows == {c \in DOMAIN consultations :
                       consultations[c].appointment_id = a}
            existing == CHOOSE c \in rows : \A d \in rows : c <= d
            link == settings[consultations[existing].doctor_id]
        IN ( /\ last'.op = "start_consultation"
             /\ last'.id = a
             /\ rows # {}
             /\ consultations[existing].is_online
             /\ consultations[existing].meet_link = None )
           => /\ UNCHANGED <<appointments, messages, reputations, settings,
                             prescriptions, doctor_notes>>
              /\ IF link \notin {"no_settings", None}
                 THEN /\ last'.code = "ok"
                      /\ last'.val = existing
                      /\ consultations' =
                           [consultations EXCEPT ![existing].meet_link = link]
                 ELSE /\ last'.code = "MEET_LINK_MISSING"
                      /\ UNCHANGED consultations ]_vars

\* the session without a link was returned with the link the doctor had
\* configured in the meantime
C23_Witness ==
  /\ last.op = "start_consultation"
  /\ last.code = "ok"
  /\ last.aux = 0
  /\ last.val \in DOMAIN consultations
  /\ consultations[last.val] = [LegacySession EXCEPT !.meet_link = MeetLink]

(* ---------------------------------------------------------------------- *)
(* Requests served at the same time                                        *)
(* ---------------------------------------------------------------------- *)
\* C27: when two create_appointment requests for the same doctor and
\* queue_date have both read the same list of existing appointments, neither
\* list holding the other's appointment, the two appointments they store
\* carry the same queue_number.
C27_RacingBookingsShareToken ==
  \A v, w \in Workers :
    ( /\ v # w
      /\ in_flight[v].op = "create_appointment"
      /\ in_flight[w].op = "create_appointment"
      /\ in_flight[v].pc = "done"
      /\ in_flight[w].pc = "done"
      /\ in_flight[v].doctor_id = in_flight[w].doctor_id
      /\ in_flight[v].queue_date = in_flight[w].queue_date
      /\ in_flight[v].seen = in_flight[w].seen )
    => appointments[in_flight[v].id].queue_number
         = appointments[in_flight[w].id].queue_number

\* both bookings were stored, for one doctor and one day, with one token
C27_Witness ==
  /\ in_flight[1].op = "create_appointment"
  /\ in_flight[2].op = "create_appointment"
  /\ in_flight[1].pc = "done"
  /\ in_flight[2].pc = "done"
  /\ in_flight[1].seen = in_flight[2].seen
  /\ in_flight[1].id # in_flight[2].id
  /\ appointments[in_flight[1].id].doctor_id
       = appointments[in_flight[2].id].doctor_id
  /\ appointments[in_flight[1].id].queue_date
       = appointments[in_flight[2].id].queue_date
  /\ appointments[in_flight[1].id].queue_number
       = appointments[in_flight[2].id].queue_number

\* C28: when two start_consultation requests for the same appointment have
\* both answered success, however their store calls interleaved, at most one
\* session record exists for the appointment and both requests returned the
\* same session id.
C28_RacingStartsShareSession ==
  \A v, w \in Workers :
    ( /\ v # w
      /\ in_flight[v].op = "start_consultation"
      /\ in_flight[w].op = "start_consultation"
      /\ in_flight[v].pc = "done"
      /\ in_flight[w].pc = "done"
      /\ in_flight[v].code = "ok"
      /\ in_flight[w].code = "ok"
      /\ in_flight[v].id = in_flight[w].id )
    => /\ Cardinality({c \in DOMAIN consultations :
                         consultations[c].appointment_id = in_flight[v].id}) <= 1
       /\ in_flight[v].consultation_id = in_flight[w].consultation_id
====
